---- MODULE Spec2Model ----
(***************************************************************************)
(* Reference-counted ownership layer of mexMemory: ControlBlock, Ref       *)
(* (strong handle), WeakRef (weak handle) and the AllocationTracker ledger *)
(* the control block reports to.                                           *)
(*                                                                         *)
(* Threads run handle operations.  One step of the model is one access to  *)
(* shared memory (an atomic read-modify-write or load of a counter, a      *)
(* plain read or write of objectPtr, a delete); the reads and writes of    *)
(* the handle objects themselves are folded into the neighbouring step,    *)
(* because a handle is used by one thread at a time (a handle that is      *)
(* copied from may be read by several threads).                            *)
(*                                                                         *)
(* Memory of a control block that has been deleted keeps its last          *)
(* contents, but an access to it is undefined behaviour: a load from it    *)
(* returns the stale contents or another value, and useAfterFree records   *)
(* that the access happened.                                               *)
(***************************************************************************)
EXTENDS Integers, FiniteSets

\* Bounds of the model.
NumThreads == 2
NumStrong == 2
NumWeak == 2
NumBlocks == 1
\* Operations that raise a counter start only below MaxRefs; operations
\* that lower a counter which already wrapped start only within MaxWrap of
\* the largest value.
MaxRefs == 3
MaxWrap == 1
\* Iterations of the copy-and-release loop each thread of
\* MemoryTest.ThreadSafety runs.
NumIterations == 3
\* Allocations each thread of AllocationMapTest.ThreadSafety tracks.
AllocsPerThread == 2
\* Copies of the std::shared_ptr that exist at a time.
MaxShared == 2

\* std::atomic<size_t> counters wrap modulo SizeModulus.  size_t is 64 bits
\* wide; the model keeps the wrap-around with the widest modulus the checker's
\* integers hold.  No run of the model comes near either width by counting up.
SizeModulus == 1073741824

NULL == 0
Threads == 1..NumThreads
StrongH == 1..NumStrong
WeakH == (NumStrong + 1)..(NumStrong + NumWeak)
\* The strong handle each thread of MemoryTest.ThreadSafety holds inside its loop.
LocalRef(t) == NumStrong + NumWeak + t
\* The Ref the deleter of the std::shared_ptr made by to_shared_ptr holds.
DeleterRef == NumStrong + NumWeak + NumThreads + 1
LocalH == {LocalRef(t) : t \in 1..NumThreads} \cup {DeleterRef}
Handles == StrongH \cup WeakH \cup LocalH
\* The control block of an allocation made before the run starts (ref3 of
\* EnhancedFeaturesTest.ComparisonOperators); operator new hands out the others.
OtherBlock == NumBlocks + 1
Blocks == 1..NumBlocks \cup {OtherBlock}
\* Mutant of Addr: two allocations get the same address.
AddrReused(b) == 1
\* The address of the payload allocated for control block b.
Addr(b) == b
\* The address of the j-th object thread t allocates itself (new int(j)) and
\* passes to the ledger.
NewInt(t, j) == OtherBlock + (t - 1) * AllocsPerThread + j
RawAddrs == {NewInt(t, j) : t \in Threads, j \in 1..AllocsPerThread}
Addresses == Blocks \cup RawAddrs

VARIABLES
    controlBlock,     \* ReferenceBase::controlBlock of every handle
    objectPtr,        \* ControlBlock::objectPtr
    strongRefs,       \* ControlBlock::strongRefs
    weakRefs,         \* ControlBlock::weakRefs
    cbState,          \* heap state of the block: "unallocated", "live", "freed"
    allocations_,     \* AllocationTracker::allocations_ (its keys)
    enabled_,         \* AllocationTracker::enabled_
    pc,               \* position of every thread inside its operation
    op,               \* the handle operation a thread is running
    dst,              \* the handle the operation writes (this)
    src,              \* the handle the operation reads (other)
    cb,               \* the control block the thread is calling into
    payloadDeallocs,  \* history: Allocator::deallocate calls on the payload
    dtorDeallocs,     \* history: those made by ~ControlBlock
    cbDeletes,        \* history: delete of the control block
    useAfterFree,     \* history: a deleted control block was accessed
    pre,              \* history: the counters and handles as they were when the
                      \* thread's operation was called
    iter,             \* MemoryTest.ThreadSafety: loop iterations a thread completed
    mutex_,           \* AllocationTracker::mutex_: the thread that holds it, or NULL
    breakOnLeak_,     \* AllocationTracker::breakOnLeak_
    fileless,         \* keys of allocations_ whose AllocationInfo::file is empty
    lpc,              \* position of every thread inside its AllocationTracker call
    larg,             \* that call's arguments and local variables
    lret,             \* how the thread's last AllocationTracker call ended
    lpre,             \* history: the ledger as it was when the call was made
    sharedOwners,     \* use_count() of the std::shared_ptr to_shared_ptr returned
    bpc               \* position of every thread inside to_shared_ptr

heap == <<objectPtr, strongRefs, weakRefs, cbState>>
ledger == <<allocations_, enabled_>>
locals == <<pc, op, dst, src, cb, pre>>
history == <<payloadDeallocs, dtorDeallocs, cbDeletes, useAfterFree>>
tracker == <<mutex_, breakOnLeak_, fileless, lpc, larg, lret, lpre>>
interop == <<sharedOwners, bpc>>
vars == <<controlBlock, heap, ledger, locals, history, iter, tracker, interop>>

CastOps == {"staticCast", "dynamicCast", "constCast", "reinterpretCast"}
StrongOps == {"copy", "destroy", "reset", "copyAssign", "moveAssign", "lock", "fromWeak", "deref"}
                 \cup CastOps
WeakOps == {"weak", "wcopy", "wdestroy", "wreset", "wcopyAssign", "wmoveAssign"}
LedgerPcValues == {"idle", "aborted",
                   "tr_enabled", "tr_lock", "tr_find", "tr_insert",
                   "un_enabled", "un_lock", "un_contains", "un_erase",
                   "en_lock", "en_store", "cl_lock", "cl_clear",
                   "ck_lock", "ck_empty", "ck_loop", "ck_end", "ga_copy"}
BridgePcValues == {"idle", "ts_null", "ts_capture", "ts_make", "ts_local", "ts_ret"}
PcValues == {"idle", "ret", "is_fetch", "is_load", "iw_fetch", "iw_load",
             "ds_fetch", "ds_obj", "ds_null", "ds_weak", "ds_delete",
             "dw_fetch", "dw_strong", "dw_delete", "lk_check",
             "deref_get", "null_use", "crashed", "cast_null"}

TypeOK ==
    /\ controlBlock \in [Handles -> Blocks \cup {NULL}]
    /\ objectPtr \in [Blocks -> Blocks \cup {NULL}]
    /\ strongRefs \in [Blocks -> 0..(SizeModulus - 1)]
    /\ weakRefs \in [Blocks -> 0..(SizeModulus - 1)]
    /\ cbState \in [Blocks -> {"unallocated", "live", "freed"}]
    /\ allocations_ \subseteq (Addresses \cup {NULL})
    /\ enabled_ \in BOOLEAN
    /\ pc \in [Threads -> PcValues]
    /\ op \in [Threads -> StrongOps \cup WeakOps \cup {"none"}]
    /\ dst \in [Threads -> Handles \cup {NULL}]
    /\ src \in [Threads -> Handles \cup {NULL}]
    /\ cb \in [Threads -> Blocks \cup {NULL}]
    /\ payloadDeallocs \in [Blocks -> 0..2]
    /\ dtorDeallocs \in [Blocks -> 0..2]
    /\ cbDeletes \in [Blocks -> 0..2]
    /\ useAfterFree \in BOOLEAN
    /\ pre \in [Threads -> [strong : [Blocks -> 0..(SizeModulus - 1)],
                            weak : [Blocks -> 0..(SizeModulus - 1)],
                            handles : [Handles -> Blocks \cup {NULL}]]]
    /\ iter \in [Threads -> Nat]
    /\ sharedOwners \in 0..MaxShared
    /\ bpc \in [Threads -> BridgePcValues]
    /\ mutex_ \in Threads \cup {NULL}
    /\ breakOnLeak_ \in BOOLEAN
    /\ fileless \subseteq (RawAddrs \cup {NULL})
    /\ lpc \in [Threads -> LedgerPcValues]
    /\ larg \in [Threads -> [ptr : Addresses \cup {NULL}, flag : BOOLEAN,
                             seen : SUBSET (Addresses \cup {NULL})]]
    /\ lret \in [Threads -> [kind : {"none", "void", "count", "thrown", "aborted"},
                             value : Nat]]
    /\ lpre \in [Threads -> [table : SUBSET (Addresses \cup {NULL}),
                             enabled : BOOLEAN, strict : BOOLEAN]]

\* The counters of every block and the handles, and what pre holds between
\* operations.
Snapshot == [strong |-> strongRefs, weak |-> weakRefs, handles |-> controlBlock]
NoSnapshot == [strong |-> [b \in Blocks |-> 0], weak |-> [b \in Blocks |-> 0],
               handles |-> [h \in Handles |-> NULL]]

\* The arguments, the result and the snapshot of a thread that is in no
\* AllocationTracker call and has made none.
NoArg == [ptr |-> NULL, flag |-> FALSE, seen |-> {}]
NoResult == [kind |-> "none", value |-> 0]
NoLedgerSnapshot == [table |-> {}, enabled |-> FALSE, strict |-> FALSE]
\* No std::shared_ptr has been made.
InteropInit ==
    /\ sharedOwners = 0
    /\ bpc = [t \in Threads |-> "idle"]

\* The tracker as the program starts: unlocked, leaks not fatal, no call made.
TrackerInit ==
    /\ mutex_ = NULL
    /\ breakOnLeak_ = FALSE
    /\ fileless = {}
    /\ lpc = [t \in Threads |-> "idle"]
    /\ larg = [t \in Threads |-> NoArg]
    /\ lret = [t \in Threads |-> NoResult]
    /\ lpre = [t \in Threads |-> NoLedgerSnapshot]

\* History counters count 0, 1, "more than once".
Sat(n) == IF n >= 2 THEN 2 ELSE n + 1

Init ==
    /\ controlBlock = [h \in Handles |-> NULL]
    /\ objectPtr = [b \in Blocks |-> NULL]
    /\ strongRefs = [b \in Blocks |-> 0]
    /\ weakRefs = [b \in Blocks |-> 0]
    /\ cbState = [b \in Blocks |-> "unallocated"]
    /\ allocations_ = {}
    /\ enabled_ = FALSE
    /\ pc = [t \in Threads |-> "idle"]
    /\ op = [t \in Threads |-> "none"]
    /\ dst = [t \in Threads |-> NULL]
    /\ src = [t \in Threads |-> NULL]
    /\ cb = [t \in Threads |-> NULL]
    /\ pre = [t \in Threads |-> NoSnapshot]
    /\ payloadDeallocs = [b \in Blocks |-> 0]
    /\ dtorDeallocs = [b \in Blocks |-> 0]
    /\ cbDeletes = [b \in Blocks |-> 0]
    /\ useAfterFree = FALSE
    /\ iter = [t \in Threads |-> 0]
    /\ TrackerInit
    /\ InteropInit

----------------------------------------------------------------------------
\* Memory accesses.

\* What a load of a counter holding v in block b may return.
ReadVals(b, v) == IF cbState[b] = "freed" THEN {v, 0, 1} ELSE {v}
\* What a read of objectPtr of block b may return.
ReadPtr(b) == IF cbState[b] = "freed" THEN {objectPtr[b], NULL} ELSE {objectPtr[b]}
\* Every access to block b records whether b had been deleted.
Touch(b) == useAfterFree' = (useAfterFree \/ cbState[b] = "freed")

\* Mutant of FetchAdd: the count is raised twice for one new handle.
FetchAddTwice(v) == (v + 2) % SizeModulus
\* fetch_add(1) and fetch_sub(1) on a size_t.
FetchAdd(v) == (v + 1) % SizeModulus
FetchSub(v) == (v + SizeModulus - 1) % SizeModulus

\* AllocationTracker::trackAllocation and untrackAllocation.
trackAllocation(p) == IF enabled_ THEN allocations_ \cup {p} ELSE allocations_
\* Mutant of untrackAllocation: the entry is erased whether tracking is
\* enabled or not.
untrackAllocationAlways(p) == allocations_ \ {p}
untrackAllocation(p) == IF enabled_ THEN allocations_ \ {p} ELSE allocations_

\* Guards that keep the counters within the bounds of the model.
IncOK(v) == v < MaxRefs \/ v >= SizeModulus - MaxWrap - NumThreads
DecOK(v) == v <= MaxRefs + NumThreads \/ v > SizeModulus - MaxWrap

----------------------------------------------------------------------------
\* Thread bookkeeping.

Idle(t) ==
    /\ pc' = [pc EXCEPT ![t] = "idle"]
    /\ op' = [op EXCEPT ![t] = "none"]
    /\ dst' = [dst EXCEPT ![t] = NULL]
    /\ src' = [src EXCEPT ![t] = NULL]
    /\ cb' = [cb EXCEPT ![t] = NULL]
    /\ pre' = [pre EXCEPT ![t] = NoSnapshot]

Call(t, p, o, d, s, b) ==
    /\ pc' = [pc EXCEPT ![t] = p]
    /\ op' = [op EXCEPT ![t] = o]
    /\ dst' = [dst EXCEPT ![t] = d]
    /\ src' = [src EXCEPT ![t] = s]
    /\ cb' = [cb EXCEPT ![t] = b]
    /\ pre' = [pre EXCEPT ![t] = IF pc[t] = "idle" THEN Snapshot ELSE @]

Goto(t, p) ==
    /\ pc' = [pc EXCEPT ![t] = p]
    /\ UNCHANGED <<op, dst, src, cb, pre>>

\* Handles an operation in progress writes and reads.
Writing(t) ==
    ({dst[t]} \cup (IF op[t] \in {"moveAssign", "wmoveAssign"} THEN {src[t]} ELSE {})) \ {NULL}
Reading(t) == {src[t]} \ {NULL}
\* A thread uses a handle only while no other thread's operation conflicts.
CanWrite(h) == \A u \in Threads : h \notin (Writing(u) \cup Reading(u))
CanRead(h) == \A u \in Threads : h \notin Writing(u)

Quiescent == \A t \in Threads : pc[t] = "idle"

----------------------------------------------------------------------------
\* What a handle operation does once its release() has returned.
\*   destructor, reset():  controlBlock = nullptr
\*   copy assignment:      controlBlock = other.controlBlock; retain()
\*   move assignment:      controlBlock = other.controlBlock; other.controlBlock = nullptr
Finish(t, o, d, s) ==
    IF o \in {"copyAssign", "wcopyAssign"}
    THEN /\ controlBlock' = [controlBlock EXCEPT ![d] = controlBlock[s]]
         /\ IF controlBlock[s] = NULL
            THEN Idle(t)
            ELSE Call(t, IF o = "copyAssign" THEN "is_fetch" ELSE "iw_fetch", o, d, s, controlBlock[s])
    ELSE IF o \in {"moveAssign", "wmoveAssign"}
    THEN /\ controlBlock' = [controlBlock EXCEPT ![d] = controlBlock[s], ![s] = NULL]
         /\ Idle(t)
    ELSE /\ controlBlock' = [controlBlock EXCEPT ![d] = NULL]
         /\ Idle(t)

\* ControlBlock::~ControlBlock followed by the release of the block's memory.
DeleteThis(b) ==
    \E p \in ReadPtr(b), n \in ReadVals(b, strongRefs[b]) :
        /\ IF p # NULL
           THEN /\ allocations_' = IF n > 0 THEN untrackAllocation(p) ELSE allocations_
                /\ payloadDeallocs' = [payloadDeallocs EXCEPT ![b] = Sat(@)]
                /\ dtorDeallocs' = [dtorDeallocs EXCEPT ![b] = Sat(@)]
                /\ objectPtr' = [objectPtr EXCEPT ![b] = NULL]
           ELSE UNCHANGED <<allocations_, payloadDeallocs, dtorDeallocs, objectPtr>>
        /\ cbState' = [cbState EXCEPT ![b] = "freed"]
        /\ cbDeletes' = [cbDeletes EXCEPT ![b] = Sat(@)]
        /\ Touch(b)

----------------------------------------------------------------------------
\* ControlBlock::incrementStrong

\* strongRefs.fetch_add(1, relaxed)
IncrementStrongFetch(t) ==
    /\ pc[t] = "is_fetch"
    /\ \E v \in ReadVals(cb[t], strongRefs[cb[t]]) :
          strongRefs' = [strongRefs EXCEPT ![cb[t]] = FetchAdd(v)]
    /\ Touch(cb[t])
    /\ Goto(t, "is_load")
    /\ UNCHANGED <<controlBlock, objectPtr, weakRefs, cbState, ledger,
                   payloadDeallocs, dtorDeallocs, cbDeletes>>
    /\ UNCHANGED <<iter, tracker, interop>>

\* strongRefs.load(), the argument of logReferenceChange; the operation that
\* called incrementStrong then returns (lock() returns Ref(controlBlock)).
IncrementStrongLoad(t) ==
    /\ pc[t] = "is_load"
    /\ Touch(cb[t])
    /\ controlBlock' = IF op[t] = "lock"
                       THEN [controlBlock EXCEPT ![dst[t]] = cb[t]]
                       ELSE controlBlock
    /\ Idle(t)
    /\ UNCHANGED <<heap, ledger, payloadDeallocs, dtorDeallocs, cbDeletes>>
    /\ UNCHANGED <<iter, tracker, interop>>

\* ControlBlock::incrementWeak
IncrementWeakFetch(t) ==
    /\ pc[t] = "iw_fetch"
    /\ \E v \in ReadVals(cb[t], weakRefs[cb[t]]) :
          weakRefs' = [weakRefs EXCEPT ![cb[t]] = FetchAdd(v)]
    /\ Touch(cb[t])
    /\ Goto(t, "iw_load")
    /\ UNCHANGED <<controlBlock, objectPtr, strongRefs, cbState, ledger,
                   payloadDeallocs, dtorDeallocs, cbDeletes>>
    /\ UNCHANGED <<iter, tracker, interop>>

IncrementWeakLoad(t) ==
    /\ pc[t] = "iw_load"
    /\ Touch(cb[t])
    /\ Idle(t)
    /\ UNCHANGED <<controlBlock, heap, ledger, payloadDeallocs, dtorDeallocs, cbDeletes>>
    /\ UNCHANGED <<iter, tracker, interop>>

----------------------------------------------------------------------------
\* ControlBlock::decrementStrong

\* prev = strongRefs.fetch_sub(1, acq_rel); if (prev == 1) ...
DecrementStrongFetch(t) ==
    /\ pc[t] = "ds_fetch"
    /\ Touch(cb[t])
    /\ \E prev \in ReadVals(cb[t], strongRefs[cb[t]]) :
          /\ strongRefs' = [strongRefs EXCEPT ![cb[t]] = FetchSub(prev)]
          /\ IF prev = 1
             THEN Goto(t, "ds_obj") /\ UNCHANGED controlBlock
             ELSE Finish(t, op[t], dst[t], src[t])
    /\ UNCHANGED <<objectPtr, weakRefs, cbState, ledger,
                   payloadDeallocs, dtorDeallocs, cbDeletes>>
    /\ UNCHANGED <<iter, tracker, interop>>

\* if (objectPtr) { UNTRACK_ALLOC(objectPtr); Allocator::deallocate(objectPtr); }
DecrementStrongObject(t) ==
    /\ pc[t] = "ds_obj"
    /\ Touch(cb[t])
    /\ \E p \in ReadPtr(cb[t]) :
          IF p # NULL
          THEN /\ allocations_' = untrackAllocation(p)
               /\ payloadDeallocs' = [payloadDeallocs EXCEPT ![cb[t]] = Sat(@)]
          ELSE UNCHANGED <<allocations_, payloadDeallocs>>
    /\ Goto(t, "ds_null")
    /\ UNCHANGED <<controlBlock, heap, enabled_, dtorDeallocs, cbDeletes>>
    /\ UNCHANGED <<iter, tracker, interop>>

\* objectPtr = nullptr;
DecrementStrongNull(t) ==
    /\ pc[t] = "ds_null"
    /\ Touch(cb[t])
    /\ objectPtr' = [objectPtr EXCEPT ![cb[t]] = NULL]
    /\ Goto(t, "ds_weak")
    /\ UNCHANGED <<controlBlock, strongRefs, weakRefs, cbState, ledger,
                   payloadDeallocs, dtorDeallocs, cbDeletes>>
    /\ UNCHANGED <<iter, tracker, interop>>

\* if (weakRefs.load(relaxed) == 0) ...
DecrementStrongWeak(t) ==
    /\ pc[t] = "ds_weak"
    /\ Touch(cb[t])
    /\ \E w \in ReadVals(cb[t], weakRefs[cb[t]]) :
          IF w = 0
          THEN Goto(t, "ds_delete") /\ UNCHANGED controlBlock
          ELSE Finish(t, op[t], dst[t], src[t])
    /\ UNCHANGED <<heap, ledger, payloadDeallocs, dtorDeallocs, cbDeletes>>
    /\ UNCHANGED <<iter, tracker, interop>>

\* delete this;
DecrementStrongDelete(t) ==
    /\ pc[t] = "ds_delete"
    /\ DeleteThis(cb[t])
    /\ Finish(t, op[t], dst[t], src[t])
    /\ UNCHANGED <<strongRefs, weakRefs, enabled_>>
    /\ UNCHANGED <<iter, tracker, interop>>

----------------------------------------------------------------------------
\* ControlBlock::decrementWeak

\* prev = weakRefs.fetch_sub(1, acq_rel); if (prev == 1) ...
DecrementWeakFetch(t) ==
    /\ pc[t] = "dw_fetch"
    /\ Touch(cb[t])
    /\ \E prev \in ReadVals(cb[t], weakRefs[cb[t]]) :
          /\ weakRefs' = [weakRefs EXCEPT ![cb[t]] = FetchSub(prev)]
          /\ IF prev = 1
             THEN Goto(t, "dw_strong") /\ UNCHANGED controlBlock
             ELSE Finish(t, op[t], dst[t], src[t])
    /\ UNCHANGED <<objectPtr, strongRefs, cbState, ledger,
                   payloadDeallocs, dtorDeallocs, cbDeletes>>
    /\ UNCHANGED <<iter, tracker, interop>>

\* Mutant of DecrementWeakStrong: the block is deleted whatever the strong
\* count is.
DecrementWeakAlwaysDeletes(t) ==
    /\ pc[t] = "dw_strong"
    /\ Touch(cb[t])
    /\ Goto(t, "dw_delete")
    /\ UNCHANGED <<controlBlock, heap, ledger, payloadDeallocs, dtorDeallocs, cbDeletes>>
    /\ UNCHANGED <<iter, tracker, interop>>

\* if (strongRefs.load(relaxed) == 0) ...
DecrementWeakStrong(t) ==
    /\ pc[t] = "dw_strong"
    /\ Touch(cb[t])
    /\ \E n \in ReadVals(cb[t], strongRefs[cb[t]]) :
          IF n = 0
          THEN Goto(t, "dw_delete") /\ UNCHANGED controlBlock
          ELSE Finish(t, op[t], dst[t], src[t])
    /\ UNCHANGED <<heap, ledger, payloadDeallocs, dtorDeallocs, cbDeletes>>
    /\ UNCHANGED <<iter, tracker, interop>>

\* delete this;
DecrementWeakDelete(t) ==
    /\ pc[t] = "dw_delete"
    /\ DeleteThis(cb[t])
    /\ Finish(t, op[t], dst[t], src[t])
    /\ UNCHANGED <<strongRefs, weakRefs, enabled_>>
    /\ UNCHANGED <<iter, tracker, interop>>

----------------------------------------------------------------------------
\* WeakRef::canLock inside WeakRef::lock, and the same test inside
\* Ref::Ref(const WeakRef&): controlBlock->strongCount() > 0
CanLockCheck(t) ==
    /\ pc[t] = "lk_check"
    /\ Touch(cb[t])
    /\ \E n \in ReadVals(cb[t], strongRefs[cb[t]]) :
          IF n > 0
          THEN Goto(t, "is_fetch") /\ UNCHANGED controlBlock
          ELSE /\ controlBlock' = IF op[t] = "fromWeak"
                                  THEN [controlBlock EXCEPT ![dst[t]] = NULL]
                                  ELSE controlBlock
               /\ Idle(t)
    /\ UNCHANGED <<heap, ledger, payloadDeallocs, dtorDeallocs, cbDeletes>>
    /\ UNCHANGED <<iter, tracker, interop>>

\* An assignment whose test this != &other failed returns *this.
ReturnThis(t) ==
    /\ pc[t] = "ret"
    /\ Idle(t)
    /\ UNCHANGED <<controlBlock, heap, ledger, history>>
    /\ UNCHANGED <<iter, tracker, interop>>

----------------------------------------------------------------------------
\* Construction of control blocks.

\* A thread makes its next call when it has returned from the last one.  Once a
\* deleted control block has been accessed the operations in progress run on,
\* but the program's further calls are not followed.
Ready(t) == pc[t] = "idle" /\ ~useAfterFree /\ lpc[t] = "idle" /\ bpc[t] = "idle"

\* ControlBlock constructors: objectPtr(ptr), strongRefs{1}, weakRefs{0},
\* TRACK_ALLOC(objectPtr).
NewControlBlock(b, p) ==
    /\ objectPtr' = [objectPtr EXCEPT ![b] = p]
    /\ strongRefs' = [strongRefs EXCEPT ![b] = 1]
    /\ weakRefs' = [weakRefs EXCEPT ![b] = 0]
    /\ cbState' = [cbState EXCEPT ![b] = "live"]
    /\ allocations_' = trackAllocation(p)

\* The block operator new returns: blocks are handed out in order and the
\* memory of a deleted block is not handed out again.
NextBlock(b) ==
    /\ b # OtherBlock
    /\ cbState[b] = "unallocated"
    /\ \A c \in Blocks : c < b => cbState[c] # "unallocated"

\* makeRef / makeRefWithAllocator: the handle d is constructed over a new
\* control block that allocates its payload.
makeRef(t, d) ==
    /\ Ready(t)
    /\ controlBlock[d] = NULL
    /\ CanWrite(d)
    /\ \E b \in Blocks :
          /\ NextBlock(b)
          /\ NewControlBlock(b, Addr(b))
          /\ controlBlock' = [controlBlock EXCEPT ![d] = b]
    /\ UNCHANGED <<enabled_, locals, history>>
    /\ UNCHANGED <<iter, tracker, interop>>

\* Ref::Ref(U* ptr): the handle d adopts a raw pointer, which may be null.
RefFromPtr(t, d, isNull) ==
    /\ Ready(t)
    /\ controlBlock[d] = NULL
    /\ CanWrite(d)
    /\ \E b \in Blocks :
          /\ NextBlock(b)
          /\ NewControlBlock(b, IF isNull THEN NULL ELSE Addr(b))
          /\ controlBlock' = [controlBlock EXCEPT ![d] = b]
    /\ UNCHANGED <<enabled_, locals, history>>
    /\ UNCHANGED <<iter, tracker, interop>>

----------------------------------------------------------------------------
\* Handle operations.  A constructor builds its handle in an empty slot.

\* Mutant of SelfCheck: the assignment operators do not test for self-assignment.
SelfCheckAlways(d, s) == TRUE
\* The test this != &other of the assignment operators.
SelfCheck(d, s) == d # s

\* Ref::release / WeakRef::release (first = the decrement they call), and
\* ReferenceBase::reset:
\*   if (controlBlock) { controlBlock->decrementX(); controlBlock = nullptr; }
StartRelease(t, o, d, s, first) ==
    IF controlBlock[d] # NULL
    THEN /\ Call(t, first, o, d, s, controlBlock[d])
         /\ UNCHANGED controlBlock
    ELSE Finish(t, o, d, s)

\* The counters an operation is about to change are within the model's bounds.
StrongDecOK(h) == IF controlBlock[h] = NULL THEN TRUE ELSE DecOK(strongRefs[controlBlock[h]])
StrongIncOK(h) == IF controlBlock[h] = NULL THEN TRUE ELSE IncOK(strongRefs[controlBlock[h]])
WeakDecOK(h) == IF controlBlock[h] = NULL THEN TRUE ELSE DecOK(weakRefs[controlBlock[h]])
WeakIncOK(h) == IF controlBlock[h] = NULL THEN TRUE ELSE IncOK(weakRefs[controlBlock[h]])

\* Mutant of CopyConstruct: the copy constructor does not call retain().
CopyConstructNoRetain(t, d, s) ==
    /\ Ready(t)
    /\ d # s /\ controlBlock[d] = NULL
    /\ CanWrite(d) /\ CanRead(s)
    /\ controlBlock' = [controlBlock EXCEPT ![d] = controlBlock[s]]
    /\ UNCHANGED <<heap, ledger, locals, history>>
    /\ UNCHANGED <<iter, tracker, interop>>

\* Ref::Ref(const Ref& other) : base(other.controlBlock) { retain(); }
CopyConstruct(t, d, s) ==
    /\ Ready(t)
    /\ d # s /\ controlBlock[d] = NULL
    /\ CanWrite(d) /\ CanRead(s)
    /\ StrongIncOK(s)
    /\ controlBlock' = [controlBlock EXCEPT ![d] = controlBlock[s]]
    /\ IF controlBlock[s] # NULL
       THEN Call(t, "is_fetch", "copy", d, s, controlBlock[s])
       ELSE UNCHANGED locals
    /\ UNCHANGED <<heap, ledger, history>>
    /\ UNCHANGED <<iter, tracker, interop>>

\* Mutant of MoveConstruct: the source keeps its control block.
MoveConstructKeepsSource(t, d, s) ==
    /\ Ready(t)
    /\ d # s /\ controlBlock[d] = NULL
    /\ CanWrite(d) /\ CanWrite(s)
    /\ controlBlock' = [controlBlock EXCEPT ![d] = controlBlock[s]]
    /\ UNCHANGED <<heap, ledger, locals, history>>
    /\ UNCHANGED <<iter, tracker, interop>>

\* Ref::Ref(Ref&& other) : base(other.controlBlock) { other.controlBlock = nullptr; }
MoveConstruct(t, d, s) ==
    /\ Ready(t)
    /\ d # s /\ controlBlock[d] = NULL
    /\ CanWrite(d) /\ CanWrite(s)
    /\ controlBlock' = [controlBlock EXCEPT ![d] = controlBlock[s], ![s] = NULL]
    /\ UNCHANGED <<heap, ledger, locals, history>>
    /\ UNCHANGED <<iter, tracker, interop>>

\* Ref::~Ref() { release(); } up to its call of decrementStrong.
DestroyRef(t, d) ==
    /\ Ready(t)
    /\ CanWrite(d)
    /\ StrongDecOK(d)
    /\ StartRelease(t, "destroy", d, NULL, "ds_fetch")
    /\ UNCHANGED <<heap, ledger, history>>

\* Ref::~Ref()
Destroy(t, d) == DestroyRef(t, d) /\ UNCHANGED <<iter, tracker, interop>>

\* Mutant of Reset: reset() gives up a weak count instead of a strong count.
ResetDecrementsWeak(t, d) ==
    /\ Ready(t)
    /\ CanWrite(d)
    /\ WeakDecOK(d)
    /\ StartRelease(t, "reset", d, NULL, "dw_fetch")
    /\ UNCHANGED <<heap, ledger, history>>
    /\ UNCHANGED <<iter, tracker, interop>>

\* ReferenceBase::reset on a Ref
Reset(t, d) ==
    /\ Ready(t)
    /\ CanWrite(d)
    /\ StrongDecOK(d)
    /\ StartRelease(t, "reset", d, NULL, "ds_fetch")
    /\ UNCHANGED <<heap, ledger, history>>
    /\ UNCHANGED <<iter, tracker, interop>>

\* Ref& Ref::operator=(const Ref& other)
CopyAssign(t, d, s) ==
    /\ Ready(t)
    /\ CanWrite(d) /\ (d = s \/ CanRead(s))
    /\ StrongDecOK(d) /\ StrongIncOK(s)
    /\ IF SelfCheck(d, s)
       THEN StartRelease(t, "copyAssign", d, s, "ds_fetch")
       ELSE Call(t, "ret", "copyAssign", d, s, NULL) /\ UNCHANGED controlBlock
    /\ UNCHANGED <<heap, ledger, history>>
    /\ UNCHANGED <<iter, tracker, interop>>

\* Ref& Ref::operator=(Ref&& other)
MoveAssign(t, d, s) ==
    /\ Ready(t)
    /\ CanWrite(d) /\ CanWrite(s)
    /\ StrongDecOK(d)
    /\ IF SelfCheck(d, s)
       THEN StartRelease(t, "moveAssign", d, s, "ds_fetch")
       ELSE Call(t, "ret", "moveAssign", d, s, NULL) /\ UNCHANGED controlBlock
    /\ UNCHANGED <<heap, ledger, history>>
    /\ UNCHANGED <<iter, tracker, interop>>

\* WeakRef::lock: if (canLock()) { incrementStrong(); return Ref(controlBlock); }
\* return Ref();   canLock() is controlBlock && controlBlock->strongCount() > 0.
Lock(t, d, s) ==
    /\ Ready(t)
    /\ controlBlock[d] = NULL
    /\ CanWrite(d) /\ CanRead(s)
    /\ StrongIncOK(s)
    /\ IF controlBlock[s] # NULL
       THEN Call(t, "lk_check", "lock", d, s, controlBlock[s])
       ELSE UNCHANGED locals
    /\ UNCHANGED <<controlBlock, heap, ledger, history>>
    /\ UNCHANGED <<iter, tracker, interop>>

\* Ref::Ref(const WeakRef& weak) : base(weak.controlBlock)
RefFromWeak(t, d, s) ==
    /\ Ready(t)
    /\ controlBlock[d] = NULL
    /\ CanWrite(d) /\ CanRead(s)
    /\ StrongIncOK(s)
    /\ controlBlock' = [controlBlock EXCEPT ![d] = controlBlock[s]]
    /\ IF controlBlock[s] # NULL
       THEN Call(t, "lk_check", "fromWeak", d, s, controlBlock[s])
       ELSE UNCHANGED locals
    /\ UNCHANGED <<heap, ledger, history>>
    /\ UNCHANGED <<iter, tracker, interop>>

\* Mutant of WeakFromStrong: the new weak handle retains a strong count.
WeakFromStrongRetainsStrong(t, d, s) ==
    /\ Ready(t)
    /\ controlBlock[d] = NULL
    /\ CanWrite(d) /\ CanRead(s)
    /\ StrongIncOK(s)
    /\ controlBlock' = [controlBlock EXCEPT ![d] = controlBlock[s]]
    /\ IF controlBlock[s] # NULL
       THEN Call(t, "is_fetch", "weak", d, s, controlBlock[s])
       ELSE UNCHANGED locals
    /\ UNCHANGED <<heap, ledger, history>>
    /\ UNCHANGED <<iter, tracker, interop>>

\* Ref::weak, WeakRef::WeakRef(const Ref& strongRef) : base(strongRef.controlBlock) { retain(); }
WeakFromStrong(t, d, s) ==
    /\ Ready(t)
    /\ controlBlock[d] = NULL
    /\ CanWrite(d) /\ CanRead(s)
    /\ WeakIncOK(s)
    /\ controlBlock' = [controlBlock EXCEPT ![d] = controlBlock[s]]
    /\ IF controlBlock[s] # NULL
       THEN Call(t, "iw_fetch", "weak", d, s, controlBlock[s])
       ELSE UNCHANGED locals
    /\ UNCHANGED <<heap, ledger, history>>
    /\ UNCHANGED <<iter, tracker, interop>>

\* WeakRef::WeakRef(const WeakRef& other) : base(other.controlBlock) { retain(); }
WeakCopyConstruct(t, d, s) ==
    /\ Ready(t)
    /\ d # s /\ controlBlock[d] = NULL
    /\ CanWrite(d) /\ CanRead(s)
    /\ WeakIncOK(s)
    /\ controlBlock' = [controlBlock EXCEPT ![d] = controlBlock[s]]
    /\ IF controlBlock[s] # NULL
       THEN Call(t, "iw_fetch", "wcopy", d, s, controlBlock[s])
       ELSE UNCHANGED locals
    /\ UNCHANGED <<heap, ledger, history>>
    /\ UNCHANGED <<iter, tracker, interop>>

\* WeakRef::WeakRef(WeakRef&& other)
WeakMoveConstruct(t, d, s) ==
    /\ Ready(t)
    /\ d # s /\ controlBlock[d] = NULL
    /\ CanWrite(d) /\ CanWrite(s)
    /\ controlBlock' = [controlBlock EXCEPT ![d] = controlBlock[s], ![s] = NULL]
    /\ UNCHANGED <<heap, ledger, locals, history>>
    /\ UNCHANGED <<iter, tracker, interop>>

\* Mutant of WeakDestroy: the weak handle's release gives up a strong count.
WeakDestroyDecrementsStrong(t, d) ==
    /\ Ready(t)
    /\ CanWrite(d)
    /\ StrongDecOK(d)
    /\ StartRelease(t, "wdestroy", d, NULL, "ds_fetch")
    /\ UNCHANGED <<heap, ledger, history>>
    /\ UNCHANGED <<iter, tracker, interop>>

\* WeakRef::~WeakRef() { release(); }
WeakDestroy(t, d) ==
    /\ Ready(t)
    /\ CanWrite(d)
    /\ WeakDecOK(d)
    /\ StartRelease(t, "wdestroy", d, NULL, "dw_fetch")
    /\ UNCHANGED <<heap, ledger, history>>
    /\ UNCHANGED <<iter, tracker, interop>>

\* ReferenceBase::reset on a WeakRef: the inherited reset() calls
\* controlBlock->decrementStrong().
WeakReset(t, d) ==
    /\ Ready(t)
    /\ CanWrite(d)
    /\ StrongDecOK(d)
    /\ StartRelease(t, "wreset", d, NULL, "ds_fetch")
    /\ UNCHANGED <<heap, ledger, history>>
    /\ UNCHANGED <<iter, tracker, interop>>

\* WeakRef& WeakRef::operator=(const WeakRef& other)
WeakCopyAssign(t, d, s) ==
    /\ Ready(t)
    /\ CanWrite(d) /\ (d = s \/ CanRead(s))
    /\ WeakDecOK(d) /\ WeakIncOK(s)
    /\ IF SelfCheck(d, s)
       THEN StartRelease(t, "wcopyAssign", d, s, "dw_fetch")
       ELSE Call(t, "ret", "wcopyAssign", d, s, NULL) /\ UNCHANGED controlBlock
    /\ UNCHANGED <<heap, ledger, history>>
    /\ UNCHANGED <<iter, tracker, interop>>

\* WeakRef& WeakRef::operator=(WeakRef&& other)
WeakMoveAssign(t, d, s) ==
    /\ Ready(t)
    /\ CanWrite(d) /\ CanWrite(s)
    /\ WeakDecOK(d)
    /\ IF SelfCheck(d, s)
       THEN StartRelease(t, "wmoveAssign", d, s, "dw_fetch")
       ELSE Call(t, "ret", "wmoveAssign", d, s, NULL) /\ UNCHANGED controlBlock
    /\ UNCHANGED <<heap, ledger, history>>
    /\ UNCHANGED <<iter, tracker, interop>>

\* ReferenceBase::operator* and operator->: return *get() and return get(),
\* where get() is controlBlock ? controlBlock->get() : nullptr.  Neither
\* tests the pointer before the caller uses it.
Dereference(t, s) ==
    /\ Ready(t)
    /\ CanRead(s)
    /\ IF controlBlock[s] # NULL
       THEN Call(t, "deref_get", "deref", NULL, s, controlBlock[s])
       ELSE Call(t, "null_use", "deref", NULL, s, NULL)
    /\ UNCHANGED <<controlBlock, heap, ledger, history>>
    /\ UNCHANGED <<iter, tracker, interop>>

\* controlBlock->get(): the read of objectPtr.
DereferenceGet(t) ==
    /\ pc[t] = "deref_get"
    /\ Touch(cb[t])
    /\ \E p \in ReadPtr(cb[t]) : IF p # NULL THEN Idle(t) ELSE Goto(t, "null_use")
    /\ UNCHANGED <<controlBlock, heap, ledger, payloadDeallocs, dtorDeallocs, cbDeletes>>
    /\ UNCHANGED <<iter, tracker, interop>>

\* The use of a null payload pointer is undefined behaviour: the process is
\* killed by the access, or the caller runs on with what it read or wrote.
DereferenceNull(t) ==
    /\ pc[t] = "null_use"
    /\ \/ Idle(t)
       \/ /\ pc' = [u \in Threads |-> "crashed"]
          /\ UNCHANGED <<op, dst, src, cb, pre>>
    /\ UNCHANGED <<controlBlock, heap, ledger, history>>
    /\ UNCHANGED <<iter, tracker, interop>>

----------------------------------------------------------------------------
\* Pointer casts of strong handles (referenceCasting.h).

\* Mutant of PointerCast: the result takes the control block without retain().
PointerCastNoRetain(t, d, s, o, castOk) ==
    /\ Ready(t)
    /\ d # s /\ controlBlock[d] = NULL
    /\ CanWrite(d) /\ CanRead(s)
    /\ controlBlock' = [controlBlock EXCEPT ![d] = controlBlock[s]]
    /\ Call(t, "cast_null", o, d, s, controlBlock[s])
    /\ UNCHANGED <<heap, ledger, history>>
    /\ UNCHANGED <<iter, tracker, interop>>

\* The body the four casts share; d receives the returned handle.
\*   if (!ref) return Ref<U>(nullptr);
\*   [dynamic_pointer_cast only: if (dynamic_cast<U*>(ref.get()) == nullptr)
\*                                   return Ref<U>(nullptr);]
\*   Ref<U> result; result.controlBlock = ref.getControlBlock();
\*   result.retain(); return result;
\* castOk is the outcome of the dynamic_cast, TRUE for the other casts.
PointerCast(t, d, s, o, castOk) ==
    /\ Ready(t)
    /\ d # s /\ controlBlock[d] = NULL
    /\ CanWrite(d) /\ CanRead(s)
    /\ StrongIncOK(s)
    /\ \E p \in (IF controlBlock[s] # NULL THEN ReadPtr(controlBlock[s]) ELSE {NULL}) :
          IF p # NULL /\ castOk
          THEN /\ controlBlock' = [controlBlock EXCEPT ![d] = controlBlock[s]]
               /\ Call(t, "is_fetch", o, d, s, controlBlock[s])
          ELSE /\ UNCHANGED controlBlock
               /\ Call(t, "cast_null", o, d, s, NULL)
    /\ UNCHANGED <<heap, ledger, history>>
    /\ UNCHANGED <<iter, tracker, interop>>

\* return Ref<U, Allocator>(nullptr)
CastReturnNull(t) ==
    /\ pc[t] = "cast_null"
    /\ Idle(t)
    /\ UNCHANGED <<controlBlock, heap, ledger, history>>
    /\ UNCHANGED <<iter, tracker, interop>>

static_pointer_cast(t, d, s) == PointerCast(t, d, s, "staticCast", TRUE)
\* Mutant of dynamic_pointer_cast: the outcome of dynamic_cast is not tested.
DynamicCastIgnoresFailure(t, d, s, castOk) == PointerCast(t, d, s, "dynamicCast", TRUE)
dynamic_pointer_cast(t, d, s, castOk) == PointerCast(t, d, s, "dynamicCast", castOk)
const_pointer_cast(t, d, s) == PointerCast(t, d, s, "constCast", TRUE)
reinterpret_pointer_cast(t, d, s) == PointerCast(t, d, s, "reinterpretCast", TRUE)

----------------------------------------------------------------------------
\* The bridge to std::shared_ptr (stdInterop.h).  One std::shared_ptr family
\* exists at a time; LocalRef(t) is the function's local mexRef and DeleterRef
\* the mexRef captured by the deleter.

BridgeGoto(t, p) == bpc' = [bpc EXCEPT ![t] = p]

\* to_shared_ptr(ref):  if (!ref) return std::shared_ptr<T>();
\*                      auto mexRef = ref;
to_shared_ptr(t, s) ==
    /\ Ready(t)
    /\ CanRead(s)
    /\ controlBlock[LocalRef(t)] = NULL /\ controlBlock[DeleterRef] = NULL
    /\ sharedOwners = 0
    /\ controlBlock[s] # NULL =>
          IncOK(strongRefs[controlBlock[s]]) /\ IncOK(FetchAdd(strongRefs[controlBlock[s]]))
    /\ \E p \in (IF controlBlock[s] # NULL THEN ReadPtr(controlBlock[s]) ELSE {NULL}) :
          IF p # NULL
          THEN /\ controlBlock' = [controlBlock EXCEPT ![LocalRef(t)] = controlBlock[s]]
               /\ Call(t, "is_fetch", "copy", LocalRef(t), s, controlBlock[s])
               /\ BridgeGoto(t, "ts_capture")
          ELSE /\ UNCHANGED <<controlBlock, locals>>
               /\ BridgeGoto(t, "ts_null")
    /\ UNCHANGED <<heap, ledger, history, iter, tracker, sharedOwners>>

\* return std::shared_ptr<T>()
ToSharedReturnEmpty(t) ==
    /\ bpc[t] = "ts_null"
    /\ BridgeGoto(t, "idle")
    /\ UNCHANGED <<controlBlock, heap, ledger, locals, history, iter, tracker, sharedOwners>>

\* [mexRef](T*) mutable { ... }: the closure holds a copy of mexRef, which
\* the std::shared_ptr moves into its own control block.
ToSharedCapture(t) ==
    /\ bpc[t] = "ts_capture" /\ pc[t] = "idle"
    /\ controlBlock' = [controlBlock EXCEPT ![DeleterRef] = controlBlock[LocalRef(t)]]
    /\ Call(t, "is_fetch", "copy", DeleterRef, LocalRef(t), controlBlock[LocalRef(t)])
    /\ BridgeGoto(t, "ts_make")
    /\ UNCHANGED <<heap, ledger, history, iter, tracker, sharedOwners>>

\* std::shared_ptr<T>(ref.get(), deleter): the first external holder.
ToSharedMake(t) ==
    /\ bpc[t] = "ts_make" /\ pc[t] = "idle"
    /\ sharedOwners' = 1
    /\ BridgeGoto(t, "ts_local")
    /\ UNCHANGED <<controlBlock, heap, ledger, locals, history, iter, tracker>>

\* The local mexRef is destroyed as the function returns.
ToSharedLocal(t) ==
    /\ bpc[t] = "ts_local"
    /\ StartRelease(t, "destroy", LocalRef(t), NULL, "ds_fetch")
    /\ BridgeGoto(t, "ts_ret")
    /\ UNCHANGED <<heap, ledger, history, iter, tracker, sharedOwners>>

\* The caller has the std::shared_ptr.
ToSharedReturn(t) ==
    /\ bpc[t] = "ts_ret" /\ pc[t] = "idle"
    /\ BridgeGoto(t, "idle")
    /\ UNCHANGED <<controlBlock, heap, ledger, locals, history, iter, tracker, sharedOwners>>

\* A copy of the std::shared_ptr is made.
SharedPtrCopy(t) ==
    /\ Ready(t)
    /\ sharedOwners > 0 /\ sharedOwners < MaxShared
    /\ sharedOwners' = sharedOwners + 1
    /\ UNCHANGED <<controlBlock, heap, ledger, locals, history, iter, tracker, bpc>>

\* A copy of the std::shared_ptr is destroyed; the last one runs the deleter,
\* mexRef.reset().
SharedPtrDestroy(t) ==
    /\ Ready(t)
    /\ sharedOwners > 0
    /\ sharedOwners' = sharedOwners - 1
    /\ IF sharedOwners = 1
       THEN /\ StrongDecOK(DeleterRef)
            /\ StartRelease(t, "reset", DeleterRef, NULL, "ds_fetch")
       ELSE UNCHANGED <<controlBlock, locals>>
    /\ UNCHANGED <<heap, ledger, history, iter, tracker, bpc>>

ToSharedSteps(t) ==
    \/ ToSharedReturnEmpty(t) \/ ToSharedCapture(t) \/ ToSharedMake(t)
    \/ ToSharedLocal(t) \/ ToSharedReturn(t)

----------------------------------------------------------------------------
\* AllocationTracker calls the program makes itself.  One step is one access
\* to the tracker's static members or to its mutex; a std::lock_guard unlocks
\* in the step that leaves its scope.

LedgerSnapshot == [table |-> allocations_, enabled |-> enabled_, strict |-> breakOnLeak_]

LedgerCall(t, p, a) ==
    /\ lpc' = [lpc EXCEPT ![t] = p]
    /\ larg' = [larg EXCEPT ![t] = a]
    /\ lret' = [lret EXCEPT ![t] = NoResult]
    /\ lpre' = [lpre EXCEPT ![t] = LedgerSnapshot]

LedgerGoto(t, p) ==
    /\ lpc' = [lpc EXCEPT ![t] = p]
    /\ UNCHANGED <<larg, lret, lpre>>

LedgerReturn(t, r) ==
    /\ lpc' = [lpc EXCEPT ![t] = "idle"]
    /\ larg' = [larg EXCEPT ![t] = NoArg]
    /\ lret' = [lret EXCEPT ![t] = r]
    /\ lpre' = [lpre EXCEPT ![t] = NoLedgerSnapshot]

Void == [kind |-> "void", value |-> 0]
Count(n) == [kind |-> "count", value |-> n]

\* What no AllocationTracker call touches.
handleState == <<controlBlock, heap, locals, history>>

\* Mutant of Acquire: the lock is taken without waiting for its holder.
AcquireWithoutWaiting(t) == mutex_' = t
\* std::lock_guard<std::mutex> lock(mutex_);
Acquire(t) == mutex_ = NULL /\ mutex_' = t
\* ~lock_guard
Unlock == mutex_' = NULL

\* AllocationTracker::trackAllocation(ptr, 1, file, line); hasFile tells
\* whether file is a non-empty string.
TrackAlloc(t, p, hasFile) ==
    /\ Ready(t)
    /\ LedgerCall(t, "tr_enabled", [ptr |-> p, flag |-> hasFile, seen |-> {}])
    /\ UNCHANGED <<handleState, ledger, mutex_, breakOnLeak_, fileless>>

trackAllocationCall(t, p, hasFile) == TrackAlloc(t, p, hasFile) /\ UNCHANGED <<iter, interop>>

\* if (!enabled_) return;
TrackEnabled(t) ==
    /\ lpc[t] = "tr_enabled"
    /\ IF enabled_ THEN LedgerGoto(t, "tr_lock") ELSE LedgerReturn(t, Void)
    /\ UNCHANGED <<handleState, ledger, mutex_, breakOnLeak_, fileless>>
    /\ UNCHANGED <<iter, interop>>

TrackLock(t) ==
    /\ lpc[t] = "tr_lock"
    /\ Acquire(t)
    /\ LedgerGoto(t, "tr_find")
    /\ UNCHANGED <<handleState, ledger, breakOnLeak_, fileless>>
    /\ UNCHANGED <<iter, interop>>

\* allocations_.emplace(ptr, ...): the look-up of the key
TrackFind(t) ==
    /\ lpc[t] = "tr_find"
    /\ lpc' = [lpc EXCEPT ![t] = "tr_insert"]
    /\ larg' = [larg EXCEPT ![t].seen = allocations_]
    /\ UNCHANGED <<lret, lpre>>
    /\ UNCHANGED <<handleState, ledger, mutex_, breakOnLeak_, fileless>>
    /\ UNCHANGED <<iter, interop>>

\* Mutant of TrackInsert: the new AllocationInfo replaces the entry that is
\* already there (insert_or_assign).
TrackInsertOverwrites(t) ==
    /\ lpc[t] = "tr_insert"
    /\ allocations_' = larg[t].seen \cup {larg[t].ptr}
    /\ fileless' = IF larg[t].flag
                   THEN fileless \ {larg[t].ptr}
                   ELSE fileless \cup {larg[t].ptr}
    /\ Unlock
    /\ LedgerReturn(t, Void)
    /\ UNCHANGED <<handleState, enabled_, breakOnLeak_>>
    /\ UNCHANGED <<iter, interop>>

\* allocations_.emplace(ptr, ...): the insertion into the table as it was
\* found; an entry that is already there stays as it is.
TrackInsert(t) ==
    /\ lpc[t] = "tr_insert"
    /\ allocations_' = larg[t].seen \cup {larg[t].ptr}
    /\ fileless' = IF larg[t].ptr \notin larg[t].seen /\ ~larg[t].flag
                   THEN fileless \cup {larg[t].ptr}
                   ELSE fileless
    /\ Unlock
    /\ LedgerReturn(t, Void)
    /\ UNCHANGED <<handleState, enabled_, breakOnLeak_>>
    /\ UNCHANGED <<iter, interop>>

\* AllocationTracker::untrackAllocation(ptr)
untrackAllocationCall(t, p) ==
    /\ Ready(t)
    /\ LedgerCall(t, "un_enabled", [ptr |-> p, flag |-> FALSE, seen |-> {}])
    /\ UNCHANGED <<handleState, ledger, mutex_, breakOnLeak_, fileless>>
    /\ UNCHANGED <<iter, interop>>

\* if (!enabled_) return;
UntrackEnabled(t) ==
    /\ lpc[t] = "un_enabled"
    /\ IF enabled_ THEN LedgerGoto(t, "un_lock") ELSE LedgerReturn(t, Void)
    /\ UNCHANGED <<handleState, ledger, mutex_, breakOnLeak_, fileless>>
    /\ UNCHANGED <<iter, interop>>

UntrackLock(t) ==
    /\ lpc[t] = "un_lock"
    /\ Acquire(t)
    /\ LedgerGoto(t, "un_contains")
    /\ UNCHANGED <<handleState, ledger, breakOnLeak_, fileless>>
    /\ UNCHANGED <<iter, interop>>

\* Mutant of UntrackContains: an absent address is reported as an error.
UntrackContainsThrows(t) ==
    /\ lpc[t] = "un_contains"
    /\ IF larg[t].ptr \in allocations_
       THEN LedgerGoto(t, "un_erase") /\ UNCHANGED mutex_
       ELSE Unlock /\ LedgerReturn(t, [kind |-> "thrown", value |-> 0])
    /\ UNCHANGED <<handleState, ledger, breakOnLeak_, fileless>>
    /\ UNCHANGED <<iter, interop>>

\* if (allocations_.contains(ptr))
UntrackContains(t) ==
    /\ lpc[t] = "un_contains"
    /\ IF larg[t].ptr \in allocations_
       THEN LedgerGoto(t, "un_erase") /\ UNCHANGED mutex_
       ELSE Unlock /\ LedgerReturn(t, Void)
    /\ UNCHANGED <<handleState, ledger, breakOnLeak_, fileless>>
    /\ UNCHANGED <<iter, interop>>

\* allocations_.erase(ptr);
UntrackErase(t) ==
    /\ lpc[t] = "un_erase"
    /\ allocations_' = allocations_ \ {larg[t].ptr}
    /\ fileless' = fileless \ {larg[t].ptr}
    /\ Unlock
    /\ LedgerReturn(t, Void)
    /\ UNCHANGED <<handleState, enabled_, breakOnLeak_>>
    /\ UNCHANGED <<iter, interop>>

\* AllocationTracker::enableTracking
enableTracking(t, e) ==
    /\ Ready(t)
    /\ LedgerCall(t, "en_lock", [ptr |-> NULL, flag |-> e, seen |-> {}])
    /\ UNCHANGED <<handleState, ledger, mutex_, breakOnLeak_, fileless>>
    /\ UNCHANGED <<iter, interop>>

EnableLock(t) ==
    /\ lpc[t] = "en_lock"
    /\ Acquire(t)
    /\ LedgerGoto(t, "en_store")
    /\ UNCHANGED <<handleState, ledger, breakOnLeak_, fileless>>
    /\ UNCHANGED <<iter, interop>>

\* enabled_ = enable;
EnableStore(t) ==
    /\ lpc[t] = "en_store"
    /\ enabled_' = larg[t].flag
    /\ Unlock
    /\ LedgerReturn(t, Void)
    /\ UNCHANGED <<handleState, allocations_, breakOnLeak_, fileless>>
    /\ UNCHANGED <<iter, interop>>

\* AllocationTracker::setBreakOnLeak: breakOnLeak_ = enable; (no lock is taken)
setBreakOnLeak(t, e) ==
    /\ Ready(t)
    /\ breakOnLeak_ # e
    /\ breakOnLeak_' = e
    /\ UNCHANGED <<handleState, ledger, mutex_, fileless, lpc, larg, lret, lpre>>
    /\ UNCHANGED <<iter, interop>>

\* AllocationTracker::clearAllocations
clearAllocations(t) ==
    /\ Ready(t)
    /\ LedgerCall(t, "cl_lock", NoArg)
    /\ UNCHANGED <<handleState, ledger, mutex_, breakOnLeak_, fileless>>
    /\ UNCHANGED <<iter, interop>>

ClearLock(t) ==
    /\ lpc[t] = "cl_lock"
    /\ Acquire(t)
    /\ LedgerGoto(t, "cl_clear")
    /\ UNCHANGED <<handleState, ledger, breakOnLeak_, fileless>>
    /\ UNCHANGED <<iter, interop>>

\* allocations_.clear();
ClearStore(t) ==
    /\ lpc[t] = "cl_clear"
    /\ allocations_' = {}
    /\ fileless' = {}
    /\ Unlock
    /\ LedgerReturn(t, Void)
    /\ UNCHANGED <<handleState, enabled_, breakOnLeak_>>
    /\ UNCHANGED <<iter, interop>>

\* AllocationTracker::checkLeaks
checkLeaks(t) ==
    /\ Ready(t)
    /\ LedgerCall(t, "ck_lock", NoArg)
    /\ UNCHANGED <<handleState, ledger, mutex_, breakOnLeak_, fileless>>
    /\ UNCHANGED <<iter, interop>>

CheckLock(t) ==
    /\ lpc[t] = "ck_lock"
    /\ Acquire(t)
    /\ LedgerGoto(t, "ck_empty")
    /\ UNCHANGED <<handleState, ledger, breakOnLeak_, fileless>>
    /\ UNCHANGED <<iter, interop>>

\* if (allocations_.empty()) return 0;  otherwise the loop starts over all
\* entries (larg.seen holds the entries not visited yet).
CheckEmpty(t) ==
    /\ lpc[t] = "ck_empty"
    /\ IF allocations_ = {}
       THEN Unlock /\ LedgerReturn(t, Count(0))
       ELSE /\ lpc' = [lpc EXCEPT ![t] = "ck_loop"]
            /\ larg' = [larg EXCEPT ![t].seen = allocations_]
            /\ UNCHANGED <<mutex_, lret, lpre>>
    /\ UNCHANGED <<handleState, ledger, breakOnLeak_, fileless>>
    /\ UNCHANGED <<iter, interop>>

\* Mutant of CheckLoop: the loop never throws.
CheckLoopNeverThrows(t) ==
    /\ lpc[t] = "ck_loop"
    /\ IF larg[t].seen = {}
       THEN LedgerGoto(t, "ck_end") /\ UNCHANGED mutex_
       ELSE \E p \in larg[t].seen :
               /\ larg' = [larg EXCEPT ![t].seen = @ \ {p}]
               /\ UNCHANGED <<mutex_, lpc, lret, lpre>>
    /\ UNCHANGED <<handleState, ledger, breakOnLeak_, fileless>>
    /\ UNCHANGED <<iter, interop>>

\* for (const auto& [ptr, info] : allocations_): the table is unordered, any
\* entry not visited yet comes next.
\*   if (!info.file.empty() && breakOnLeak_) throw std::runtime_error(...);
\* The exception unwinds the lock_guard and reaches the caller.
CheckLoop(t) ==
    /\ lpc[t] = "ck_loop"
    /\ IF larg[t].seen = {}
       THEN LedgerGoto(t, "ck_end") /\ UNCHANGED mutex_
       ELSE \E p \in larg[t].seen :
               IF p \notin fileless /\ breakOnLeak_
               THEN Unlock /\ LedgerReturn(t, [kind |-> "thrown", value |-> 0])
               ELSE /\ larg' = [larg EXCEPT ![t].seen = @ \ {p}]
                    /\ UNCHANGED <<mutex_, lpc, lret, lpre>>
    /\ UNCHANGED <<handleState, ledger, breakOnLeak_, fileless>>
    /\ UNCHANGED <<iter, interop>>

\* Mutant of CheckEnd: the report empties the table and one entry is not counted.
CheckEndForgets(t) ==
    /\ lpc[t] = "ck_end"
    /\ IF breakOnLeak_
       THEN /\ lpc' = [u \in Threads |-> "aborted"]
            /\ lret' = [lret EXCEPT ![t] = [kind |-> "aborted", value |-> 0]]
            /\ UNCHANGED <<mutex_, larg, lpre, allocations_>>
       ELSE /\ Unlock /\ LedgerReturn(t, Count(Cardinality(allocations_) - 1))
            /\ allocations_' = {}
    /\ UNCHANGED <<handleState, enabled_, breakOnLeak_, fileless>>
    /\ UNCHANGED <<iter, interop>>

\* if (breakOnLeak_) abort();  return allocations_.size();
\* abort() ends the process: no thread takes another step.
CheckEnd(t) ==
    /\ lpc[t] = "ck_end"
    /\ IF breakOnLeak_
       THEN /\ lpc' = [u \in Threads |-> "aborted"]
            /\ lret' = [lret EXCEPT ![t] = [kind |-> "aborted", value |-> 0]]
            /\ UNCHANGED <<mutex_, larg, lpre>>
       ELSE Unlock /\ LedgerReturn(t, Count(Cardinality(allocations_)))
    /\ UNCHANGED <<handleState, ledger, breakOnLeak_, fileless>>
    /\ UNCHANGED <<iter, interop>>

\* AllocationTracker::getAllocations returns a reference to the table, which
\* the caller copies (auto allocations = AllocationTracker::getAllocations();)
getAllocations(t) ==
    /\ Ready(t)
    /\ LedgerCall(t, "ga_copy", NoArg)
    /\ UNCHANGED <<handleState, ledger, mutex_, breakOnLeak_, fileless>>
    /\ UNCHANGED <<iter, interop>>

GetAllocationsCopy(t) ==
    /\ lpc[t] = "ga_copy"
    /\ LedgerReturn(t, Count(Cardinality(allocations_)))
    /\ UNCHANGED <<handleState, ledger, mutex_, breakOnLeak_, fileless>>
    /\ UNCHANGED <<iter, interop>>

\* AllocationTracker::getAllocationCount
getAllocationCount == Cardinality(allocations_)

\* The steps of thread t inside the tracker's functions.
TrackSteps(t) == TrackEnabled(t) \/ TrackLock(t) \/ TrackFind(t) \/ TrackInsert(t)
UntrackSteps(t) ==
    UntrackEnabled(t) \/ UntrackLock(t) \/ UntrackContains(t) \/ UntrackErase(t)
EnableSteps(t) == EnableLock(t) \/ EnableStore(t)
ClearSteps(t) == ClearLock(t) \/ ClearStore(t)
CheckSteps(t) == CheckLock(t) \/ CheckEmpty(t) \/ CheckLoop(t) \/ CheckEnd(t)

----------------------------------------------------------------------------
\* The steps of thread t inside the control block's methods.
StrongIncSteps(t) == IncrementStrongFetch(t) \/ IncrementStrongLoad(t)
StrongDecSteps(t) ==
    \/ DecrementStrongFetch(t) \/ DecrementStrongObject(t)
    \/ DecrementStrongNull(t) \/ DecrementStrongWeak(t)
    \/ DecrementStrongDelete(t)
WeakIncSteps(t) == IncrementWeakFetch(t) \/ IncrementWeakLoad(t)
WeakDecSteps(t) ==
    \/ DecrementWeakFetch(t) \/ DecrementWeakStrong(t)
    \/ DecrementWeakDelete(t)

\* Copies, moves, assignments and releases of strong handles by thread t.
StrongCall(t) ==
    \E d \in StrongH :
        \/ makeRef(t, d)
        \/ Destroy(t, d)
        \/ Reset(t, d)
        \/ \E s \in StrongH : \/ CopyConstruct(t, d, s)
                              \/ MoveConstruct(t, d, s)
                              \/ CopyAssign(t, d, s)
                              \/ MoveAssign(t, d, s)

\* Promotion of a weak handle to a strong handle by thread t.
LockCall(t) == \E d \in StrongH, s \in WeakH : Lock(t, d, s) \/ RefFromWeak(t, d, s)

\* Casts of a strong handle by thread t.
CastCall(t) ==
    \E d \in StrongH, s \in StrongH :
        \/ static_pointer_cast(t, d, s)
        \/ \E castOk \in BOOLEAN : dynamic_pointer_cast(t, d, s, castOk)
        \/ const_pointer_cast(t, d, s)
        \/ reinterpret_pointer_cast(t, d, s)

\* Dereference of a strong handle by thread t.
DerefCall(t) == \E s \in StrongH : Dereference(t, s)
DerefSteps(t) == DereferenceGet(t) \/ DereferenceNull(t)

\* Adoption of a raw pointer by thread t.
AdoptCall(t) == \E d \in StrongH, isNull \in BOOLEAN : RefFromPtr(t, d, isNull)

\* Creation of a weak handle from a strong handle by thread t.
WeakFromStrongCall(t) == \E d \in WeakH, s \in StrongH : WeakFromStrong(t, d, s)

\* The other calls thread t makes on weak handles.
WeakCall(t) ==
    \E d \in WeakH :
        \/ WeakDestroy(t, d)
        \/ WeakReset(t, d)
        \/ \E s \in WeakH : \/ WeakCopyConstruct(t, d, s)
                            \/ WeakMoveConstruct(t, d, s)
                            \/ WeakCopyAssign(t, d, s)
                            \/ WeakMoveAssign(t, d, s)

ThreadNext(t) ==
    \/ StrongIncSteps(t) \/ StrongDecSteps(t) \/ WeakIncSteps(t) \/ WeakDecSteps(t)
    \/ CanLockCheck(t) \/ ReturnThis(t) \/ DerefSteps(t)
    \/ StrongCall(t) \/ LockCall(t) \/ AdoptCall(t) \/ WeakFromStrongCall(t) \/ WeakCall(t)
    \/ DerefCall(t)

\* Threads running any handle operations concurrently.
Next == \E t \in Threads : ThreadNext(t)

Spec == Init /\ [][Next]_vars

\* One thread running any handle operations.
SeqNext == ThreadNext(1)

SeqSpec == Init /\ [][SeqNext]_vars

\* One thread running any operation on handles whose control blocks come
\* from makeRef (no raw pointer is adopted).
HandleNext ==
    \/ StrongIncSteps(1) \/ StrongDecSteps(1) \/ WeakIncSteps(1) \/ WeakDecSteps(1)
    \/ CanLockCheck(1) \/ ReturnThis(1) \/ DerefSteps(1)
    \/ StrongCall(1) \/ LockCall(1) \/ WeakFromStrongCall(1) \/ WeakCall(1)
    \/ DerefCall(1)

HandleSpec == Init /\ [][HandleNext]_vars

\* One thread constructing, copying, moving, assigning, resetting, promoting
\* and destroying handles: every operation of HandleNext but WeakRef's
\* inherited reset() and the dereference of a strong handle.
OwnerNext ==
    \/ StrongIncSteps(1) \/ StrongDecSteps(1) \/ WeakIncSteps(1) \/ WeakDecSteps(1)
    \/ CanLockCheck(1) \/ ReturnThis(1)
    \/ StrongCall(1) \/ LockCall(1) \/ WeakFromStrongCall(1)
    \/ \E d \in WeakH :
          \/ WeakDestroy(1, d)
          \/ \E s \in WeakH : \/ WeakCopyConstruct(1, d, s)
                              \/ WeakMoveConstruct(1, d, s)
                              \/ WeakCopyAssign(1, d, s)
                              \/ WeakMoveAssign(1, d, s)

OwnerSpec == Init /\ [][OwnerNext]_vars

\* One thread constructing, copying, casting, resetting and destroying strong
\* handles while weak handles are created and destroyed.
CastNext ==
    \/ StrongIncSteps(1) \/ StrongDecSteps(1) \/ WeakIncSteps(1) \/ WeakDecSteps(1)
    \/ CastCall(1) \/ CastReturnNull(1)
    \/ WeakFromStrongCall(1)
    \/ \E d \in WeakH : WeakDestroy(1, d)
    \/ \E d \in StrongH :
          \/ makeRef(1, d) \/ Destroy(1, d) \/ Reset(1, d)
          \/ \E s \in StrongH : CopyConstruct(1, d, s)

CastSpec == Init /\ [][CastNext]_vars

\* One thread making, copying and destroying strong handles, bridging them to
\* a std::shared_ptr, and copying and destroying that std::shared_ptr, while
\* weak handles are created, reset and destroyed.
InteropNext ==
    \/ StrongIncSteps(1) \/ StrongDecSteps(1) \/ WeakIncSteps(1) \/ WeakDecSteps(1)
    \/ ToSharedSteps(1)
    \/ SharedPtrCopy(1) \/ SharedPtrDestroy(1)
    \/ WeakFromStrongCall(1)
    \/ \E d \in WeakH : WeakDestroy(1, d) \/ WeakReset(1, d)
    \/ \E d \in StrongH :
          \/ makeRef(1, d) \/ Destroy(1, d) \/ to_shared_ptr(1, d)
          \/ \E s \in StrongH : CopyConstruct(1, d, s)

InteropSpec == Init /\ [][InteropNext]_vars

\* EnhancedFeaturesTest.ComparisonOperators: the state after
\* auto ref3 = makeRef<int>(42), an allocation of its own held by the last
\* strong handle, and one thread making, copying, moving, assigning, resetting
\* and destroying strong handles.
CompareInit ==
    /\ controlBlock = [h \in Handles |-> IF h = NumStrong THEN OtherBlock ELSE NULL]
    /\ objectPtr = [b \in Blocks |-> IF b = OtherBlock THEN Addr(b) ELSE NULL]
    /\ strongRefs = [b \in Blocks |-> IF b = OtherBlock THEN 1 ELSE 0]
    /\ weakRefs = [b \in Blocks |-> 0]
    /\ cbState = [b \in Blocks |-> IF b = OtherBlock THEN "live" ELSE "unallocated"]
    /\ allocations_ = {}
    /\ enabled_ = FALSE
    /\ pc = [t \in Threads |-> "idle"]
    /\ op = [t \in Threads |-> "none"]
    /\ dst = [t \in Threads |-> NULL]
    /\ src = [t \in Threads |-> NULL]
    /\ cb = [t \in Threads |-> NULL]
    /\ pre = [t \in Threads |-> NoSnapshot]
    /\ payloadDeallocs = [b \in Blocks |-> 0]
    /\ dtorDeallocs = [b \in Blocks |-> 0]
    /\ cbDeletes = [b \in Blocks |-> 0]
    /\ useAfterFree = FALSE
    /\ iter = [t \in Threads |-> 0]
    /\ TrackerInit
    /\ InteropInit

CompareNext ==
    \/ StrongIncSteps(1) \/ StrongDecSteps(1) \/ ReturnThis(1)
    \/ StrongCall(1)

CompareSpec == CompareInit /\ [][CompareNext]_vars

\* Threads concurrently copying, assigning and releasing strong handles and
\* locking weak handles; weak handles are created and never released.
LockNext ==
    \E t \in Threads :
        \/ StrongIncSteps(t) \/ StrongDecSteps(t) \/ WeakIncSteps(t)
        \/ CanLockCheck(t) \/ ReturnThis(t)
        \/ StrongCall(t) \/ LockCall(t) \/ WeakFromStrongCall(t)

LockSpec == Init /\ [][LockNext]_vars

\* Threads concurrently making, copying and destroying strong and weak
\* handles: the releases that end the life of a payload and of a control block.
ReleaseNext ==
    \E t \in Threads :
        \/ StrongIncSteps(t) \/ StrongDecSteps(t) \/ WeakIncSteps(t) \/ WeakDecSteps(t)
        \/ \E d \in StrongH :
              \/ makeRef(t, d)
              \/ Destroy(t, d)
              \/ \E s \in StrongH : CopyConstruct(t, d, s)
        \/ WeakFromStrongCall(t)
        \/ \E d \in WeakH :
              \/ WeakDestroy(t, d)
              \/ \E s \in WeakH : WeakCopyConstruct(t, d, s)

ReleaseSpec == Init /\ [][ReleaseNext]_vars

\* One thread making, copying, assigning and destroying strong and weak
\* handles: the operations of MemoryTest.SelfAssigment and MoveToSelf and
\* what sets up their handles.
AssignNext ==
    \/ StrongIncSteps(1) \/ StrongDecSteps(1) \/ WeakIncSteps(1) \/ WeakDecSteps(1)
    \/ ReturnThis(1)
    \/ \E d \in StrongH :
          \/ makeRef(1, d)
          \/ Destroy(1, d)
          \/ \E s \in StrongH : \/ CopyConstruct(1, d, s)
                                \/ CopyAssign(1, d, s)
                                \/ MoveAssign(1, d, s)
    \/ WeakFromStrongCall(1)
    \/ \E d \in WeakH :
          \/ WeakDestroy(1, d)
          \/ \E s \in WeakH : \/ WeakCopyAssign(1, d, s)
                              \/ WeakMoveAssign(1, d, s)

AssignSpec == Init /\ [][AssignNext]_vars

----------------------------------------------------------------------------
\* MemoryTest.ThreadSafety: sharedRef is made, then every thread runs
\*   for (j < numIterations) { auto localRef = sharedRef; (*localRef)++; }
\* and the test joins the threads.
SharedRef == 1

\* The state after auto sharedRef = makeRef<std::atomic<int>>(0).
ThreadSafetyInit ==
    /\ controlBlock = [h \in Handles |-> IF h = SharedRef THEN 1 ELSE NULL]
    /\ objectPtr = [b \in Blocks |-> IF b = 1 THEN Addr(1) ELSE NULL]
    /\ strongRefs = [b \in Blocks |-> IF b = 1 THEN 1 ELSE 0]
    /\ weakRefs = [b \in Blocks |-> 0]
    /\ cbState = [b \in Blocks |-> IF b = 1 THEN "live" ELSE "unallocated"]
    /\ allocations_ = {}
    /\ enabled_ = FALSE
    /\ pc = [t \in Threads |-> "idle"]
    /\ op = [t \in Threads |-> "none"]
    /\ dst = [t \in Threads |-> NULL]
    /\ src = [t \in Threads |-> NULL]
    /\ cb = [t \in Threads |-> NULL]
    /\ pre = [t \in Threads |-> NoSnapshot]
    /\ payloadDeallocs = [b \in Blocks |-> 0]
    /\ dtorDeallocs = [b \in Blocks |-> 0]
    /\ cbDeletes = [b \in Blocks |-> 0]
    /\ useAfterFree = FALSE
    /\ iter = [t \in Threads |-> 0]
    /\ TrackerInit
    /\ InteropInit

\* auto localRef = sharedRef;
ThreadCopy(t) ==
    /\ iter[t] < NumIterations
    /\ CopyConstruct(t, LocalRef(t), SharedRef)

\* localRef goes out of scope at the end of the loop body.
ThreadRelease(t) ==
    /\ controlBlock[LocalRef(t)] # NULL
    /\ DestroyRef(t, LocalRef(t))
    /\ iter' = [iter EXCEPT ![t] = @ + 1]
    /\ UNCHANGED <<tracker, interop>>

\* The steps of decrementStrong past its test prev == 1 are left out of this
\* specification: its properties state that no thread gets there.
ThreadSafetyNext ==
    \E t \in Threads :
        \/ ThreadCopy(t)
        \/ ThreadRelease(t)
        \/ StrongIncSteps(t)
        \/ DecrementStrongFetch(t)

ThreadSafetySpec == ThreadSafetyInit /\ [][ThreadSafetyNext]_vars

\* Every thread has left its loop and returned from its last call.
ThreadsJoined == \A t \in Threads : iter[t] = NumIterations /\ pc[t] = "idle"

----------------------------------------------------------------------------
\* Programs that use the allocation ledger.

\* MemoryTest::SetUp: enableAllocationTracking(true); clearAllocations();
\* The state before the first handle is made, tracking enabled.
TrackedInit ==
    /\ controlBlock = [h \in Handles |-> NULL]
    /\ objectPtr = [b \in Blocks |-> NULL]
    /\ strongRefs = [b \in Blocks |-> 0]
    /\ weakRefs = [b \in Blocks |-> 0]
    /\ cbState = [b \in Blocks |-> "unallocated"]
    /\ allocations_ = {}
    /\ enabled_ = TRUE
    /\ pc = [t \in Threads |-> "idle"]
    /\ op = [t \in Threads |-> "none"]
    /\ dst = [t \in Threads |-> NULL]
    /\ src = [t \in Threads |-> NULL]
    /\ cb = [t \in Threads |-> NULL]
    /\ pre = [t \in Threads |-> NoSnapshot]
    /\ payloadDeallocs = [b \in Blocks |-> 0]
    /\ dtorDeallocs = [b \in Blocks |-> 0]
    /\ cbDeletes = [b \in Blocks |-> 0]
    /\ useAfterFree = FALSE
    /\ iter = [t \in Threads |-> 0]
    /\ TrackerInit
    /\ InteropInit

\* One thread running any handle operation with tracking enabled all along.
TrackedSpec == TrackedInit /\ [][SeqNext]_vars

\* The addresses of the objects thread t allocated itself.
OwnAddrs(t) == {NewInt(t, j) : j \in 1..AllocsPerThread}

\* The calls thread t makes on the tracker, on addresses of its own objects
\* or on a null pointer.
LedgerCalls(t) ==
    \/ \E p \in OwnAddrs(t) \cup {NULL} :
          \/ \E hasFile \in BOOLEAN : trackAllocationCall(t, p, hasFile)
          \/ untrackAllocationCall(t, p)
    \/ \E e \in BOOLEAN : enableTracking(t, e) \/ setBreakOnLeak(t, e)
    \/ clearAllocations(t) \/ checkLeaks(t) \/ getAllocations(t)

LedgerSteps(t) ==
    \/ TrackSteps(t) \/ UntrackSteps(t) \/ EnableSteps(t) \/ ClearSteps(t)
    \/ CheckSteps(t) \/ GetAllocationsCopy(t)

\* One thread calling the tracker.
LedgerSeqNext == LedgerSteps(1) \/ LedgerCalls(1)

LedgerSeqSpec == Init /\ [][LedgerSeqNext]_vars

\* Threads concurrently switching tracking on and off, tracking and
\* untracking their first object and copying the table.
LedgerNext ==
    \E t \in Threads :
        \/ TrackSteps(t) \/ UntrackSteps(t) \/ EnableSteps(t) \/ GetAllocationsCopy(t)
        \/ trackAllocationCall(t, NewInt(t, 1), TRUE)
        \/ untrackAllocationCall(t, NewInt(t, 1))
        \/ \E e \in BOOLEAN : enableTracking(t, e)
        \/ getAllocations(t)

LedgerSpec == Init /\ [][LedgerNext]_vars

\* One thread switching tracking on and off between handle operations and
\* its own calls of trackAllocation and untrackAllocation.
ToggleNext ==
    \/ OwnerNext
    \/ EnableSteps(1) \/ TrackSteps(1) \/ UntrackSteps(1)
    \/ \E e \in BOOLEAN : enableTracking(1, e)
    \/ trackAllocationCall(1, NewInt(1, 1), TRUE)
    \/ untrackAllocationCall(1, NewInt(1, 1))

ToggleSpec == Init /\ [][ToggleNext]_vars

\* One thread making, copying and destroying strong handles, switching
\* tracking on and off and checking for leaks.
LeakCheckNext ==
    \/ StrongIncSteps(1) \/ StrongDecSteps(1)
    \/ \E d \in StrongH :
          \/ makeRef(1, d)
          \/ Destroy(1, d)
          \/ \E s \in StrongH : CopyConstruct(1, d, s)
    \/ EnableSteps(1) \/ CheckSteps(1)
    \/ \E e \in BOOLEAN : enableTracking(1, e)
    \/ checkLeaks(1)

LeakCheckSpec == Init /\ [][LeakCheckNext]_vars

\* AllocationMapTest.ThreadSafety: with tracking enabled every thread runs
\*   for (j < allocsPerThread) { auto ptr = new int(j); TRACK_ALLOC(ptr); }
\* and the test joins the threads.
ThreadTrack(t) ==
    /\ iter[t] < AllocsPerThread
    /\ TrackAlloc(t, NewInt(t, iter[t] + 1), TRUE)
    /\ iter' = [iter EXCEPT ![t] = @ + 1]
    /\ UNCHANGED interop

TrackThreadsNext == \E t \in Threads : ThreadTrack(t) \/ TrackSteps(t)

TrackThreadsSpec == TrackedInit /\ [][TrackThreadsNext]_vars

\* Every thread has left its loop and returned from its last call.
TrackThreadsJoined == \A t \in Threads : iter[t] = AllocsPerThread /\ lpc[t] = "idle"

----------------------------------------------------------------------------
\* Observers of the handles and blocks.

\* Mutant of canLock: the weak count is tested instead of the strong count.
canLockTestsWeak(h) == controlBlock[h] # NULL /\ weakRefs[controlBlock[h]] > 0
\* WeakRef::canLock
canLock(h) == controlBlock[h] # NULL /\ strongRefs[controlBlock[h]] > 0
\* WeakRef::expired
expired(h) == controlBlock[h] = NULL \/ strongRefs[controlBlock[h]] = 0
\* Mutant of useCount: the weak count is returned.
useCountReadsWeak(h) == IF controlBlock[h] # NULL THEN weakRefs[controlBlock[h]] ELSE 0
\* ReferenceBase::useCount
useCount(h) == IF controlBlock[h] # NULL THEN strongRefs[controlBlock[h]] ELSE 0
\* ReferenceBase::get
get(h) == IF controlBlock[h] # NULL THEN objectPtr[controlBlock[h]] ELSE NULL
\* ReferenceBase::isValid
isValid(h) == controlBlock[h] # NULL /\ objectPtr[controlBlock[h]] # NULL

\* operator==(const Ref&, const Ref&): the payload addresses are the same.
Equals(a, b) == get(a) = get(b)
\* operator==(const Ref&, std::nullptr_t): the handle has no payload.
EqualsNullptr(a) == get(a) = NULL

StrongHolders(b) == {h \in StrongH \cup LocalH : controlBlock[h] = b}
WeakHolders(b) == {h \in WeakH : controlBlock[h] = b}
\* A thread's decrementStrong on b saw the count go from 1 to 0 and has not
\* yet finished destroying the payload.
BeingDestroyed(b) == \E t \in Threads : cb[t] = b /\ pc[t] \in {"ds_obj", "ds_null"}
\* The payload of b has been destroyed.
Destroyed(b) == payloadDeallocs[b] > 0

----------------------------------------------------------------------------
\* C1: under every interleaving of strong-handle copies and releases and of
\* lock() calls, the payload of a control block is destroyed at most once, and
\* only by the decrementStrong whose fetch_sub saw the count go from 1 to 0
\* (never by ~ControlBlock).
C1_PayloadDestroyedOnce ==
    \A b \in Blocks : payloadDeallocs[b] <= 1 /\ dtorDeallocs[b] = 0

\* C2: the control block is deleted at most once and no thread accesses it
\* after it has been deleted.
C2_ControlBlockDestroyedOnce ==
    /\ \A b \in Blocks : cbDeletes[b] <= 1
    /\ ~useAfterFree

\* C3: when lock() or Ref(const WeakRef&) returns a populated strong handle,
\* the payload of its control block has not been destroyed and is not being
\* destroyed.
C3_LockNeverReturnsDestroyed ==
    [][\A t \in Threads :
          (pc[t] = "is_load" /\ op[t] \in {"lock", "fromWeak"} /\ pc'[t] = "idle")
          => /\ cbState'[cb[t]] = "live"
             /\ objectPtr'[cb[t]] # NULL
             /\ payloadDeallocs'[cb[t]] = 0
             /\ \A u \in Threads :
                   ~(cb'[u] = cb[t] /\ pc'[u] \in {"ds_obj", "ds_null"})]_vars

\* C4: once the strong count of a control block is 0 it stays 0, and canLock()
\* of every weak handle to the block is false from then on.
C4_ZeroStaysZero ==
    [][\A b \in Blocks :
          (cbState[b] = "live" /\ strongRefs[b] = 0 /\ cbState'[b] = "live")
          => /\ strongRefs'[b] = 0
             /\ \A h \in WeakH : controlBlock'[h] = b => ~canLock(h)']_vars

\* C5: at every quiescent point, for every existing control block (created
\* over a payload) the payload pointer is non-null iff the strong count is
\* greater than 0.
C5_PayloadIffStrong ==
    Quiescent =>
        \A b \in Blocks : cbState[b] = "live" =>
            /\ objectPtr[b] # NULL => strongRefs[b] > 0
            /\ (objectPtr[b] = NULL /\ Destroyed(b)) => strongRefs[b] = 0

\* C6: at every quiescent point a control block exists (created and not yet
\* deleted) iff at least one strong or weak handle references it.
C6_BlockIffReferenced ==
    Quiescent =>
        \A b \in Blocks :
            (cbState[b] = "live") <=> (StrongHolders(b) \cup WeakHolders(b) # {})

\* C7: at every quiescent point the strong count of every existing control
\* block is the number of strong handles that reference it and its weak count
\* is the number of weak handles that reference it.
C7_CountsMatchHandles ==
    Quiescent =>
        \A b \in Blocks : cbState[b] = "live" =>
            /\ strongRefs[b] = Cardinality(StrongHolders(b))
            /\ weakRefs[b] = Cardinality(WeakHolders(b))

\* C8: threads that concurrently copy one shared strong handle and release
\* each copy at once lose and duplicate no count: no release sees the count go
\* from 1 to 0, the payload is not destroyed, and after the threads are joined
\* useCount() of the shared handle is 1, its value before they started.
C8_ThreadSafety ==
    /\ \A t \in Threads : pc[t] \notin {"ds_obj", "ds_null", "ds_weak", "ds_delete"}
    /\ cbState[1] = "live" /\ objectPtr[1] = Addr(1) /\ ~Destroyed(1)
    /\ ThreadsJoined => useCount(SharedRef) = 1

\* Every thread has run all its iterations and has been joined.
C8_Witness == ThreadsJoined /\ isValid(SharedRef)

\* C9: with N copies of a strong handle made and not yet released the strong
\* count is its starting value plus N, whatever the order of the releases; with
\* all N released it is the starting value again.
C9_CountConservation ==
    Quiescent =>
        strongRefs[1] = 1 + Cardinality({t \in Threads : controlBlock[LocalRef(t)] = 1})

\* Every thread made one copy and released it, and the count is back at 1.
C9_Witness ==
    /\ Quiescent
    /\ \A t \in Threads : iter[t] = 1 /\ controlBlock[LocalRef(t)] = NULL
    /\ useCount(SharedRef) = 1

\* A thread is inside an assignment of a handle to itself.
SelfAssigning(t) ==
    /\ pc[t] # "idle"
    /\ op[t] \in {"copyAssign", "moveAssign", "wcopyAssign", "wmoveAssign"}
    /\ dst[t] = src[t]

\* C10: copy- or move-assigning a strong or weak handle to itself only returns:
\* the operation never enters release(), and it leaves every handle, every
\* counter, the payload and the control block as they were.
C10_SelfAssignment ==
    [][\A t \in Threads :
          (SelfAssigning(t) \/ SelfAssigning(t)')
          => /\ SelfAssigning(t)' => pc'[t] = "ret"
             /\ UNCHANGED <<controlBlock, heap, history>>]_vars

\* A non-empty, valid handle is being assigned to itself.
C10_Witness ==
    \E t \in Threads :
        /\ SelfAssigning(t)
        /\ isValid(dst[t])
        /\ useCount(dst[t]) > 0

----------------------------------------------------------------------------
\* Contracts of the single operations, stated for one thread.

\* The step is the call of, or a step inside, an operation of thread t named in O.
StepOf(t, O) ==
    /\ pc'[t] # pc[t]
    /\ (pc[t] # "idle" /\ op[t] \in O) \/ (pc[t] = "idle" /\ op'[t] \in O)
\* The step is the one that returns from operation o of thread t.
Returns(t, o) == pc[t] # "idle" /\ op[t] = o /\ pc'[t] = "idle"

C12_WeakResetGivesUpWeak ==
    [][\A t \in Threads :
          /\ StepOf(t, {"wreset"}) =>
                /\ UNCHANGED strongRefs
                /\ \A b \in Blocks :
                      StrongHolders(b) # {} => payloadDeallocs'[b] = payloadDeallocs[b]
          /\ Returns(t, "wreset") =>
                weakRefs'[cb[t]] = (pre[t].weak[cb[t]] + SizeModulus - 1) % SizeModulus]_vars

\* C13: dereferencing an empty strong handle ends in a reported error the
\* caller can catch: the operation never goes on to use a null payload
\* pointer, and it changes no count.
C13_EmptyDereferenceIsReported ==
    [][\A t \in Threads :
          /\ pc'[t] \notin {"null_use", "crashed"}
          /\ StepOf(t, {"deref"}) => UNCHANGED <<strongRefs, weakRefs>>]_vars

\* C14: once no strong handle references a control block any more, every
\* weak handle of the block reports expired() = true, canLock() = false and
\* useCount() = 0 at every quiescent point, and lock() and Ref(const WeakRef&)
\* on it return an empty strong handle.
C14_WeakExpiresAfterLastStrong ==
    [][/\ Quiescent' =>
            \A w \in WeakH :
                (controlBlock'[w] # NULL /\ StrongHolders(controlBlock[w])' = {})
                    => expired(w)' /\ ~canLock(w)' /\ useCount(w)' = 0
       /\ \A t \in Threads, o \in {"lock", "fromWeak"} :
            (Returns(t, o) /\ StrongHolders(cb[t]) \ {dst[t]} = {})
                => controlBlock'[dst[t]] = NULL]_vars

\* size_t arithmetic on the counts.
Plus(n, k) == (n + k) % SizeModulus
Minus(n, k) == (n + SizeModulus - k) % SizeModulus

\* C15: a copy of a non-empty strong handle (copy constructor, or copy
\* assignment into an empty handle) has the payload address of the original,
\* and both handles then report useCount() one above the count before the
\* copy; destroying a copy while another strong handle references the block
\* leaves that handle's useCount() one below the count before.
C15_CopyAddsOne ==
    [][\A t \in Threads, d \in Handles, b \in Blocks :
          (dst[t] = d /\ cb[t] = b) =>
              /\ \A s \in Handles :
                    (/\ Returns(t, "copy") \/ Returns(t, "copyAssign")
                     /\ src[t] = s
                     /\ pre[t].handles[d] = NULL
                     /\ pre[t].handles[s] # NULL)
                        => /\ controlBlock'[d] = controlBlock'[s]
                           /\ get(d)' = get(s)
                           /\ useCount(d)' = Plus(pre[t].strong[b], 1)
                           /\ useCount(s)' = Plus(pre[t].strong[b], 1)
              /\ Returns(t, "destroy") =>
                    \A h \in StrongHolders(b) \ {d} :
                        useCount(h)' = Minus(pre[t].strong[b], 1)]_vars

\* A copy of a handle with a live payload is about to return.
C15_Witness ==
    \E t \in Threads :
        /\ op[t] = "copy" /\ pc[t] = "is_load"
        /\ isValid(src[t]) /\ useCount(src[t]) = 2

\* C16: a move (move constructor, or move assignment into an empty handle) of
\* a strong or weak handle changes no count, makes the destination reference
\* the control block and payload the source had, and leaves the source empty
\* (get() null, canLock() false).
C16_MoveTransfers ==
    [][\A t \in Threads :
          /\ \A d \in StrongH, s \in StrongH :
                (\/ MoveConstruct(t, d, s)
                 \/ (MoveAssign(t, d, s) /\ d # s /\ controlBlock[d] = NULL))
                    => /\ UNCHANGED <<strongRefs, weakRefs, objectPtr>>
                       /\ controlBlock'[d] = controlBlock[s]
                       /\ get(d)' = get(s)
                       /\ get(s)' = NULL /\ ~canLock(s)'
          /\ \A d \in WeakH, s \in WeakH :
                (\/ WeakMoveConstruct(t, d, s)
                 \/ (WeakMoveAssign(t, d, s) /\ d # s /\ controlBlock[d] = NULL))
                    => /\ UNCHANGED <<strongRefs, weakRefs, objectPtr>>
                       /\ controlBlock'[d] = controlBlock[s]
                       /\ get(d)' = get(s)
                       /\ get(s)' = NULL /\ ~canLock(s)']_vars

\* A strong handle with a live payload and a weak handle of a live payload can
\* each be moved into an empty handle.
C16_Witness ==
    /\ \E d \in StrongH, s \in StrongH :
          ENABLED MoveConstruct(1, d, s) /\ isValid(s) /\ useCount(s) = 1
    /\ \E d \in WeakH, s \in WeakH :
          ENABLED WeakMoveConstruct(1, d, s) /\ canLock(s)

\* C17: reset() on a strong handle lowers the strong count of its block by
\* exactly one and leaves the handle empty (not valid, useCount() 0); reset()
\* on an empty handle changes no handle and no count and destroys nothing.
C17_ResetReleasesOne ==
    [][\A t \in Threads, d \in StrongH :
          /\ \A b \in Blocks :
                (Returns(t, "reset") /\ dst[t] = d /\ cb[t] = b)
                    => /\ strongRefs'[b] = Minus(pre[t].strong[b], 1)
                       /\ controlBlock'[d] = NULL
                       /\ ~isValid(d)' /\ useCount(d)' = 0
          /\ (Reset(t, d) /\ controlBlock[d] = NULL)
                => UNCHANGED <<controlBlock, heap, history>>]_vars

\* reset() is running on one of two strong handles of a live payload.
C17_Witness ==
    \E t \in Threads :
        /\ op[t] = "reset" /\ pc[t] = "ds_fetch"
        /\ isValid(dst[t]) /\ useCount(dst[t]) = 2

\* C18: weak() on a non-empty strong handle returns a weak handle on the same
\* control block; the weak count of the block is one more than at the call,
\* and no step of weak() changes a strong count or a payload.
C18_WeakAddsOneWeak ==
    [][\A t \in Threads :
          /\ \A d \in WeakH, s \in StrongH, b \in Blocks :
                (Returns(t, "weak") /\ dst[t] = d /\ src[t] = s /\ cb[t] = b)
                    => /\ pre[t].handles[s] = b
                       /\ controlBlock'[d] = b /\ controlBlock'[s] = b
                       /\ weakRefs'[b] = Plus(pre[t].weak[b], 1)
                       /\ strongRefs'[b] = pre[t].strong[b]
          /\ StepOf(t, {"weak"})
                => UNCHANGED <<strongRefs, objectPtr, payloadDeallocs, dtorDeallocs>>]_vars

\* weak() is about to return the second weak handle of a live payload.
C18_Witness ==
    \E t \in Threads :
        /\ op[t] = "weak" /\ pc[t] = "iw_load"
        /\ isValid(src[t]) /\ weakRefs[cb[t]] = 2

\* C19: without a concurrent release, lock() on a weak handle whose block has
\* strong count n > 0 returns a valid strong handle on the same control block
\* and payload, makes the strong count n + 1 and leaves the weak count as it
\* was; destroying a strong handle gives the one strong count back.
C19_LockAddsOneStrong ==
    [][\A t \in Threads, d \in StrongH \cup LocalH, b \in Blocks :
          (dst[t] = d /\ cb[t] = b) =>
             /\ \A s \in WeakH :
                   (Returns(t, "lock") /\ src[t] = s /\ pre[t].strong[b] > 0)
                       => /\ isValid(d)'
                          /\ controlBlock'[d] = b /\ controlBlock'[s] = b
                          /\ get(d)' = Addr(b)
                          /\ strongRefs'[b] = Plus(pre[t].strong[b], 1)
                          /\ weakRefs'[b] = pre[t].weak[b]
             /\ Returns(t, "destroy")
                   => /\ strongRefs'[b] = Minus(pre[t].strong[b], 1)
                      /\ weakRefs'[b] = pre[t].weak[b]]_vars

\* C20: every control block made by makeRef / makeRefWithAllocator or by
\* adopting a raw pointer starts with strong count 1, weak count 0 and a
\* payload that is not null, and the strong handle returned is valid and
\* reports useCount() 1.
C20_NewBlockStartsAtOne ==
    [][\A t \in Threads, d \in StrongH :
          (makeRef(t, d) \/ \E isNull \in BOOLEAN : RefFromPtr(t, d, isNull))
              => /\ controlBlock'[d] # NULL
                 /\ \A b \in Blocks :
                       controlBlock'[d] = b
                           => /\ strongRefs'[b] = 1 /\ weakRefs'[b] = 0
                              /\ objectPtr'[b] # NULL
                              /\ isValid(d)' /\ useCount(d)' = 1]_vars

----------------------------------------------------------------------------
\* The allocation ledger.

\* C21: with tracking enabled for the whole run, between handle operations
\* the ledger has an entry for the payload of every block whose strong count
\* is above 0 and no other entry, so that the allocation count is 0 when no
\* strong handle is left.
C21_LedgerMatchesLivePayloads ==
    Quiescent =>
        /\ \A b \in Blocks :
              Addr(b) \in allocations_ <=> (cbState[b] = "live" /\ strongRefs[b] > 0)
        /\ allocations_ \subseteq {Addr(b) : b \in Blocks}
        /\ (\A h \in StrongH \cup LocalH : controlBlock[h] = NULL)
              => getAllocationCount = 0

\* The positions of a thread inside each tracker function.
TrackPcs == {"tr_enabled", "tr_lock", "tr_find", "tr_insert"}
UntrackPcs == {"un_enabled", "un_lock", "un_contains", "un_erase"}
CheckPcs == {"ck_lock", "ck_empty", "ck_loop", "ck_end"}
\* Thread t takes a step of a call whose positions are P, the first and the
\* last step included.
LedgerStepOf(t, P) == lpc'[t] # lpc[t] /\ (lpc[t] \in P \/ lpc'[t] \in P)
\* Thread t takes the last step of a call whose positions are P.
LedgerReturns(t, P) == lpc[t] \in P /\ lpc'[t] \notin P

\* C22: no step of untrackAllocation(ptr) taken while ptr is not a key of the
\* table (never tracked, already removed, or null) changes the ledger, and
\* the call ends without an error.
C22_UntrackAbsentIsNoOp ==
    [][\A t \in Threads, p \in Addresses \cup {NULL} :
          (/\ LedgerStepOf(t, UntrackPcs)
           /\ p = (IF lpc[t] = "idle" THEN larg'[t].ptr ELSE larg[t].ptr)
           /\ p \notin allocations_)
              => /\ UNCHANGED <<allocations_, fileless, enabled_>>
                 /\ lret'[t].kind \in {"none", "void"}
                 /\ lpc'[t] # "aborted"]_vars

\* untrackAllocation(nullptr) looks up its key in a table that has entries.
C22_Witness ==
    \E t \in Threads :
        /\ lpc[t] = "un_contains" /\ larg[t].ptr = NULL
        /\ NULL \notin allocations_ /\ allocations_ # {}

\* C23: no step taken while tracking is disabled, by trackAllocation, by
\* untrackAllocation, by the construction of a control block or by the
\* destruction of a payload, changes the table.
C23_DisabledLeavesTable ==
    [][~enabled_ => UNCHANGED <<allocations_, fileless>>]_vars

\* C24: with breakOnLeak_ set and an entry in the table, checkLeaks does not
\* return a count: it throws if an entry has a file recorded and aborts the
\* process otherwise.
C24_StrictLeakIsFatal ==
    [][\A t \in Threads :
          (LedgerReturns(t, CheckPcs) /\ breakOnLeak_ /\ allocations_ # {})
              => lret'[t].kind = (IF allocations_ \ fileless # {}
                                  THEN "thrown" ELSE "aborted")]_vars

\* checkLeaks walks a table that has an entry with a file and one without,
\* leaks being fatal.
C24_Witness ==
    \E t \in Threads :
        /\ lpc[t] = "ck_loop" /\ breakOnLeak_
        /\ allocations_ \ fileless # {} /\ allocations_ \cap fileless # {}

\* C25: with breakOnLeak_ clear, checkLeaks returns the number of entries of
\* the table (0 for the empty table) and none of its steps changes the ledger.
C25_LeakCheckCounts ==
    [][\A t \in Threads :
          ~breakOnLeak_ =>
             /\ LedgerReturns(t, CheckPcs) => lret'[t] = Count(Cardinality(allocations_))
             /\ LedgerStepOf(t, CheckPcs) => UNCHANGED <<allocations_, fileless, enabled_>>]_vars

\* checkLeaks is about to return the size of a table with two entries.
C25_Witness ==
    \E t \in Threads :
        /\ lpc[t] = "ck_end" /\ ~breakOnLeak_ /\ Cardinality(allocations_) = 2

\* The positions from which a thread's next step reads or writes the table
\* or the enabled flag.
AccessPcs == {"tr_enabled", "tr_find", "tr_insert", "un_enabled", "un_contains",
              "un_erase", "en_store", "cl_clear", "ck_empty", "ck_loop", "ck_end",
              "ga_copy"}

\* C29: a thread that is about to read or write allocations_ or enabled_
\* holds mutex_.
C29_LedgerAccessUnderMutex ==
    \A t \in Threads : lpc[t] \in AccessPcs => mutex_ = t

\* C30: threads that concurrently track distinct addresses lose no entry:
\* the address of every call that has returned is in the table, and once the
\* threads are joined the allocation count is the number of calls.
C30_NoTrackedEntryLost ==
    /\ \A t \in Threads, j \in 1..AllocsPerThread :
          (j < iter[t] \/ (j = iter[t] /\ lpc[t] = "idle"))
              => NewInt(t, j) \in allocations_
    /\ TrackThreadsJoined => getAllocationCount = NumThreads * AllocsPerThread

\* All threads have made all their calls.
C30_Witness ==
    /\ TrackThreadsJoined
    /\ \A t \in Threads : lret[t].kind = "void"
----------------------------------------------------------------------------
\* Pointer casts.

\* C26: a successful cast (static, dynamic, const or reinterpret) of a strong
\* handle with a live payload returns a strong handle on the control block of
\* the source, raises that block's strong count by exactly one and no other
\* count, and both handles then report the incremented useCount().
C26_CastSharesBlock ==
    [][\A t \in Threads, d \in StrongH, s \in StrongH, b \in Blocks :
          (/\ \E o \in CastOps : Returns(t, o)
           /\ dst[t] = d /\ src[t] = s
           /\ pre[t].handles[s] = b
           /\ cb[t] # NULL)
             => /\ controlBlock'[d] = b /\ controlBlock'[s] = b
                /\ strongRefs' = [pre[t].strong EXCEPT ![b] = Plus(@, 1)]
                /\ weakRefs' = pre[t].weak
                /\ useCount(d)' = Plus(pre[t].strong[b], 1)
                /\ useCount(s)' = Plus(pre[t].strong[b], 1)]_vars

\* A cast of a handle whose block has a weak handle has taken its strong
\* reference and is about to return its result.
C26_Witness ==
    \E t \in Threads :
        /\ op[t] \in CastOps /\ pc[t] = "is_load"
        /\ pre[t].strong[cb[t]] = 1 /\ strongRefs[cb[t]] = 2
        /\ pre[t].weak[cb[t]] = 1

\* C27: a dynamic cast that fails, and any cast of an empty strong handle,
\* returns an empty handle and changes neither the source handle nor any
\* strong or weak count.
C27_FailedCastChangesNothing ==
    [][\A t \in Threads, d \in StrongH, s \in StrongH :
          /\ (\/ dynamic_pointer_cast(t, d, s, FALSE)
              \/ /\ controlBlock[s] = NULL
                 /\ \/ static_pointer_cast(t, d, s)
                    \/ dynamic_pointer_cast(t, d, s, TRUE)
                    \/ const_pointer_cast(t, d, s)
                    \/ reinterpret_pointer_cast(t, d, s))
                => pc'[t] = "cast_null" /\ UNCHANGED <<controlBlock, heap>>
          /\ (pc[t] = "cast_null" /\ dst[t] = d /\ src[t] = s /\ pc'[t] # pc[t])
                => /\ pc'[t] = "idle"
                   /\ controlBlock'[d] = NULL
                   /\ controlBlock'[s] = pre[t].handles[s]
                   /\ strongRefs' = pre[t].strong /\ weakRefs' = pre[t].weak
                   /\ objectPtr' = objectPtr]_vars

\* A dynamic cast of a handle with a live payload, on a block that has a weak
\* handle, has failed and is about to return the empty handle.
C27_Witness ==
    \E t \in Threads :
        /\ op[t] = "dynamicCast" /\ pc[t] = "cast_null"
        /\ isValid(src[t]) /\ weakRefs[controlBlock[src[t]]] = 1
----------------------------------------------------------------------------
\* The bridge to std::shared_ptr.

\* C28: between calls, the Ref held by the deleter of the std::shared_ptr
\* exists exactly while the std::shared_ptr has a holder, and each block's
\* strong count is the number of strong handles on it plus one for that Ref:
\* to_shared_ptr takes one unit, keeps it while an external holder exists and
\* gives it back once.  At every step, a block that a strong handle not being
\* released references, or that the std::shared_ptr of a returned
\* to_shared_ptr holds, has its payload.
C28_SharedPtrHoldsOneUnit ==
    /\ (Quiescent /\ \A t \in Threads : bpc[t] = "idle") =>
          /\ sharedOwners > 0 <=> controlBlock[DeleterRef] # NULL
          /\ \A b \in Blocks :
                cbState[b] = "live" =>
                    strongRefs[b] = Cardinality({h \in StrongH : controlBlock[h] = b})
                                       + (IF sharedOwners > 0 /\ controlBlock[DeleterRef] = b
                                          THEN 1 ELSE 0)
    /\ \A b \in Blocks :
          (\/ \E h \in StrongH : controlBlock[h] = b /\ CanRead(h)
           \/ sharedOwners > 0 /\ controlBlock[DeleterRef] = b)
             => cbState[b] = "live" /\ objectPtr[b] # NULL /\ payloadDeallocs[b] = 0

----------------------------------------------------------------------------
\* The allocation ledger, continued.

\* C31: trackAllocation of an address that is already in the table adds no
\* second entry: the table, hence the allocation count, and the entry first
\* recorded for the address (with or without a source file) stay as they are.
C31_TrackTwiceKeepsFirst ==
    [][\A t \in Threads, p \in Addresses \cup {NULL} :
          (/\ LedgerStepOf(t, TrackPcs)
           /\ p = (IF lpc[t] = "idle" THEN larg'[t].ptr ELSE larg[t].ptr)
           /\ p \in allocations_)
             => /\ UNCHANGED <<allocations_, fileless>>
                /\ getAllocationCount' = getAllocationCount]_vars

\* A second track call, with a source file, is about to insert an address
\* whose entry was recorded without one.
C31_Witness ==
    \E t \in Threads :
        /\ lpc[t] = "tr_insert" /\ larg[t].flag
        /\ larg[t].ptr \in allocations_ \cap fileless
----------------------------------------------------------------------------
\* Comparison of handles.

----------------------------------------------------------------------------
\* The life of a control block after its payload.

\* C33: a release that takes the strong count from 1 to 0 while weak handles
\* exist destroys the payload and leaves the control block alive with strong
\* count 0 and a null payload pointer; a block whose payload is destroyed
\* keeps strong count 0 while it lives; and a block that had weak handles
\* when its strong count reached 0 is deleted only by the decrementWeak()
\* that finds the weak count at 0.
C33_BlockOutlivesPayload ==
    [][\A t \in Threads, b \in Blocks :
          /\ (/\ Returns(t, "destroy") \/ Returns(t, "reset")
              /\ cb[t] = b
              /\ pre[t].strong[b] = 1 /\ pre[t].weak[b] > 0)
                => /\ cbState'[b] = "live" /\ cbDeletes'[b] = 0
                   /\ strongRefs'[b] = 0
                   /\ objectPtr'[b] = NULL /\ payloadDeallocs'[b] = 1
          /\ (cbState[b] = "live" /\ payloadDeallocs[b] > 0)
                => /\ strongRefs[b] = 0
                   /\ (\A u \in Threads : ~(pc[u] = "ds_null" /\ cb[u] = b))
                         => objectPtr[b] = NULL
          /\ (cbState[b] = "live" /\ cbState'[b] = "freed" /\ cb[t] = b /\ pc[t] # "idle")
                => \/ pc[t] = "ds_delete" /\ pre[t].weak[b] = 0
                   \/ pc[t] = "dw_delete" /\ weakRefs[b] = 0 /\ strongRefs[b] = 0]_vars

\* C34: once every handle that referenced a control block has been released
\* and the releases have returned, the block's payload has been destroyed
\* and the block has been deleted.
C34_NothingLeaked ==
    \A b \in Blocks :
        (/\ Quiescent
         /\ cbState[b] # "unallocated"
         /\ \A h \in Handles : controlBlock[h] # b)
            => cbState[b] = "freed" /\ payloadDeallocs[b] > 0
----------------------------------------------------------------------------
\* Observers of weak handles.

\* C35: in every state and for every weak handle, expired() is the negation
\* of canLock(), and it is true exactly when the handle has no control block
\* or useCount(), the block's strong count, is 0.
C35_ExpiredIsNotCanLock ==
    \A h \in WeakH :
        /\ expired(h) <=> ~canLock(h)
        /\ expired(h) <=> (controlBlock[h] = NULL \/ useCount(h) = 0)

\* One weak handle has expired on a block that is still alive while another
\* weak handle is empty.
C35_Witness ==
    \E h \in WeakH, g \in WeakH :
        /\ controlBlock[h] # NULL /\ cbState[controlBlock[h]] = "live"
        /\ expired(h) /\ weakRefs[controlBlock[h]] = 1
        /\ controlBlock[g] = NULL

\* C36: useCount() of a weak handle is the strong count of its control
\* block, whatever the weak count is, and 0 when the handle is empty or
\* expired; useCount() of an empty strong handle is 0.
C36_UseCountIsStrongCount ==
    /\ \A h \in WeakH :
          /\ \A b \in Blocks : controlBlock[h] = b => useCount(h) = strongRefs[b]
          /\ (controlBlock[h] = NULL \/ expired(h)) => useCount(h) = 0
          /\ \A s \in StrongH : controlBlock[s] = controlBlock[h] => useCount(s) = useCount(h)
    /\ \A s \in StrongH : controlBlock[s] = NULL => useCount(s) = 0

\* Two weak handles observe a block that one strong handle holds, and the
\* other strong handle is empty.
C36_Witness ==
    \E h \in WeakH, s \in StrongH, e \in StrongH :
        /\ Quiescent
        /\ controlBlock[h] # NULL /\ controlBlock[s] = controlBlock[h]
        /\ weakRefs[controlBlock[h]] = 2 /\ useCount(h) = 1
        /\ controlBlock[e] = NULL

\* C37: decrementStrong() is never applied to a control block whose strong
\* count is 0 and decrementWeak() never to one whose weak count is 0, so
\* neither counter wraps around.
C37_NoDecrementAtZero ==
    [][\A t \in Threads :
         /\ DecrementStrongFetch(t) =>
               /\ strongRefs[cb[t]] > 0
               /\ strongRefs'[cb[t]] < strongRefs[cb[t]]
         /\ DecrementWeakFetch(t) =>
               /\ weakRefs[cb[t]] > 0
               /\ weakRefs'[cb[t]] < weakRefs[cb[t]]]_vars

\* C38: copy-assigning a strong handle from a different strong handle on the
\* same control block leaves useCount() as it was and destroys neither the
\* payload nor the control block.
C38_AssignWithinBlock ==
    [][\A t \in Threads, d \in StrongH, s \in StrongH, b \in Blocks :
         (/\ Returns(t, "copyAssign") /\ dst[t] = d /\ src[t] = s /\ d # s
          /\ pre[t].handles[d] = b /\ pre[t].handles[s] = b)
         => /\ controlBlock'[d] = b /\ controlBlock'[s] = b
            /\ strongRefs'[b] = pre[t].strong[b]
            /\ cbState'[b] = "live" /\ objectPtr'[b] # NULL
            /\ payloadDeallocs'[b] = 0 /\ cbDeletes'[b] = 0]_vars

\* C39: a decrementWeak() that takes the weak count to 0 while the strong
\* count is above 0 destroys nothing: payload, control block and strong
\* count are unchanged and the strong handles stay valid.
C39_LastWeakKeepsBlock ==
    [][\A t \in Threads, b \in Blocks :
         (/\ cb[t] = b /\ cbState[b] = "live" /\ strongRefs[b] > 0
          /\ \/ pc[t] = "dw_fetch" /\ weakRefs[b] = 1
             \/ pc[t] = "dw_strong" /\ weakRefs[b] = 0
             \/ pc[t] = "dw_delete"
          /\ pc'[t] # pc[t])
         => /\ pc[t] # "dw_delete" /\ pc'[t] # "dw_delete"
            /\ UNCHANGED <<objectPtr, strongRefs, cbState, payloadDeallocs,
                           dtorDeallocs, cbDeletes>>
            /\ \A h \in StrongH : isValid(h) => controlBlock'[h] = controlBlock[h]]_vars

\* The last weak unit of a block with a valid strong handle has just been
\* given up.
C39_Witness ==
    \E t \in Threads, h \in StrongH :
        /\ pc[t] = "dw_strong" /\ controlBlock[h] = cb[t] /\ isValid(h)
        /\ cbState[cb[t]] = "live"
        /\ weakRefs[cb[t]] = 0 /\ strongRefs[cb[t]] > 0

\* The entries of the table whose payload has been destroyed.
StaleEntries == {p \in allocations_ : \E b \in Blocks : p = Addr(b) /\ payloadDeallocs[b] > 0}

\* C40: a tracked payload destroyed while tracking is switched off keeps its
\* ledger entry: the entry stays in the table, and a later leak check counts
\* it among the leaks it reports.
C40_StaleEntryStays ==
    [][/\ \A t \in Threads, b \in Blocks :
            (/\ pc[t] = "ds_obj" /\ pc'[t] # "ds_obj" /\ cb[t] = b
             /\ ~enabled_ /\ objectPtr[b] \in allocations_)
            => /\ payloadDeallocs'[b] = 1
               /\ objectPtr[b] \in StaleEntries'
       /\ StaleEntries \subseteq StaleEntries'
       /\ \A t \in Threads :
            (LedgerReturns(t, CheckPcs) /\ StaleEntries # {})
            => /\ lret'[t].kind = "count"
               /\ lret'[t].value >= Cardinality(StaleEntries)
               /\ lret'[t].value >= 1]_vars

\* A leak check is about to report while tracking is off and the table
\* holds the entry of a destroyed payload.
C40_Witness ==
    \E t \in Threads :
        /\ lpc[t] = "ck_end" /\ ~enabled_ /\ StaleEntries # {}
====
